---------------------------- MODULE Spec2Model ----------------------------
(***************************************************************************)
(* A model of the Flow toolchain of x0: the target code generator          *)
(* (src/src/xzero-flow/TargetCodeGenerator.cc), the native registry        *)
(* (src/src/xzero-flow/vm/Runtime.cc), the daemon's configuration          *)
(* pipeline (src/src/x0d/Daemon.cc) and the core natives                   *)
(* (src/src/x0d/modules/core.cc).                                          *)
(***************************************************************************)
EXTENDS Integers, Sequences, FiniteSets, TLC

(***************************************************************************)
(* Generic helpers.                                                        *)
(***************************************************************************)
Range(s) == { s[i] : i \in 1..Len(s) }

Last(s) == s[Len(s)]

RECURSIVE SumSeq(_)
SumSeq(s) == IF s = <<>> THEN 0 ELSE s[1] + SumSeq(Tail(s))

\* 0-based position of the first element equal to x, or -1
IndexOf(s, x) ==
  IF \E i \in 1..Len(s) : s[i] = x
  THEN (CHOOSE i \in 1..Len(s) : s[i] = x /\ \A j \in 1..(i - 1) : s[j] # x) - 1
  ELSE -1

(***************************************************************************)
(* IR values.  A Value* is either a program-level uniqued constant or the  *)
(* instruction that defines it; both are encoded as [k, v].                *)
(***************************************************************************)
CInt(n)  == [k |-> "int",  v |-> n]
CBool(b) == [k |-> "bool", v |-> IF b THEN 1 ELSE 0]
CStr(i)  == [k |-> "str",  v |-> i]
CRe(i)   == [k |-> "re",   v |-> i]
Ref(id)  == [k |-> "instr", v |-> id]
Garbage  == [k |-> "garbage", v |-> 0]

IsConstant(val) == val.k \in {"int", "bool", "str", "re"}

\* IR instruction: op, identity, operands, successor blocks, callee, whether
\* the callee returns a value, target opcode of unary/binary instructions.
Ins(op, id, args, tgts, callee, ret, opc) ==
  [op |-> op, id |-> id, args |-> args, tgts |-> tgts,
   callee |-> callee, ret |-> ret, opc |-> opc]

Alloca(id)            == Ins("Alloca", id, <<>>, <<>>, "", TRUE, "")
Store(id, var, src)   == Ins("Store", id, <<Ref(var), src>>, <<>>, "", FALSE, "")
Load(id, var)         == Ins("Load", id, <<Ref(var)>>, <<>>, "", TRUE, "")
Call(id, f, args, r)  == Ins("Call", id, args, <<>>, f, r, "")
HCall(id, h, args)    == Ins("HandlerCall", id, args, <<>>, h, TRUE, "")
Bin(id, opc, a, b)    == Ins("Binary", id, <<a, b>>, <<>>, "", TRUE, opc)
Un(id, opc, a)        == Ins("Unary", id, <<a>>, <<>>, "", TRUE, opc)
\* callee holds the type of the source, opc the type cast to
Cast(id, type, source, sourceType) ==
  Ins("Cast", id, <<source>>, <<>>, sourceType, TRUE, type)
SCmpRE(id, a, re)     == Ins("SCmpRE", id, <<a, re>>, <<>>, "", TRUE, "")
Nop(id)               == Ins("Nop", id, <<>>, <<>>, "", FALSE, "")
Phi(id, incoming)     == Ins("Phi", id, incoming, <<>>, "", TRUE, "")
Br(id, t)             == Ins("Br", id, <<>>, <<t>>, "", FALSE, "")
CondBr(id, c, t, f)   == Ins("CondBr", id, <<c>>, <<t, f>>, "", FALSE, "")
Ret(id, b)            == Ins("Ret", id, <<CInt(b)>>, <<>>, "", FALSE, "")
\* args = <<condition, label1, ..>>, tgts = <<case1, .., else>> (else 0: none)
Match(id, cls, c, labels, cases, els) ==
  Ins("Match", id, <<c>> \o labels, cases \o <<els>>, "", FALSE, cls)

IsTerminator(ins) == ins.op \in {"Br", "CondBr", "Ret", "Match"}

(***************************************************************************)
(* IR handlers given to the code generator.  Blocks are numbered from 1 in *)
(* the handler's basic-block order; instruction ids are unique per         *)
(* handler.  Every block ends in exactly one terminator and every use      *)
(* follows its definition in emission order.                               *)
(***************************************************************************)
\* handler main { log "a"; staticfile; }
hStraight ==
  << << Call(1, "log(S)V", <<CStr(1)>>, FALSE),
        HCall(2, "staticfile()B", <<>>),
        Ret(3, 0) >> >>

\* handler main { var x = 1; log x; }
hVar ==
  << << Alloca(1),
        Store(2, 1, CInt(1)),
        Load(3, 1),
        Call(4, "log(I)V", <<Ref(3)>>, FALSE),
        Ret(5, 0) >> >>

\* handler main { if req.path == "/a" { echo "a"; } else { staticfile; } }
hCond ==
  << << Call(1, "req.path()S", <<>>, TRUE),
        Bin(2, "SCmpEQ", Ref(1), CStr(2)),
        CondBr(3, Ref(2), 2, 3) >>,
     << HCall(4, "echo(S)B", <<CStr(2)>>), Br(5, 4) >>,
     << HCall(6, "staticfile()B", <<>>), Br(7, 4) >>,
     << Ret(8, 0) >> >>

\* the false block is laid out right after the branching block
hCondFalseNext ==
  << << Un(1, "BNot", CBool(FALSE)),
        CondBr(2, Ref(1), 3, 2) >>,
     << Nop(3), Br(4, 4) >>,
     << HCall(5, "staticfile()B", <<>>), Br(6, 4) >>,
     << Ret(7, 0) >> >>

\* neither successor is laid out right after the branching block
hCondNeither ==
  << << Call(1, "sum(II)I", <<CInt(2), CInt(3)>>, TRUE),
        Bin(2, "ICmpEQ", Ref(1), CInt(5)),
        CondBr(3, Ref(2), 2, 3) >>,
     << CondBr(4, Ref(2), 4, 5) >>,
     << Call(5, "log(S)V", <<CStr(1)>>, FALSE), Br(6, 5) >>,
     << HCall(7, "staticfile()B", <<>>), Br(8, 5) >>,
     << Ret(9, 0) >> >>

\* handler main { match req.path { on "/a" ..; on "/b" ..; else ..; } }
hMatch ==
  << << Call(1, "req.path()S", <<>>, TRUE),
        Match(2, "SMATCHEQ", Ref(1), <<CStr(2), CStr(3)>>, <<2, 3>>, 4) >>,
     << HCall(3, "echo(S)B", <<CStr(2)>>), Br(4, 5) >>,
     << HCall(5, "echo(S)B", <<CStr(3)>>), Br(6, 5) >>,
     << HCall(7, "staticfile()B", <<>>), Br(8, 5) >>,
     << Ret(9, 0) >> >>

\* handler main { if true { log sum(2,3); } else { log sum(2,3); } }
hDiamond ==
  << << CondBr(1, CBool(TRUE), 2, 3) >>,
     << Call(2, "sum(II)I", <<CInt(2), CInt(3)>>, TRUE),
        Call(3, "log(I)V", <<Ref(2)>>, FALSE),
        Br(4, 4) >>,
     << Call(5, "sum(II)I", <<CInt(2), CInt(3)>>, TRUE),
        Call(6, "log(I)V", <<Ref(5)>>, FALSE),
        Br(7, 4) >>,
     << Ret(8, 0) >> >>

\* handler setup { listen 8080; }  (a call whose result is not used)
hSetup ==
  << << Call(1, "listen(I)V", <<CInt(8080)>>, FALSE),
        Call(2, "sum(II)I", <<CInt(2), CInt(3)>>, TRUE),
        Ret(3, 0) >> >>

\* handler main { log 65535; log 65536; log -1; log -70000; }
hInts ==
  << << Call(1, "log(I)V", <<CInt(65535)>>, FALSE),
        Call(2, "log(I)V", <<CInt(65536)>>, FALSE),
        Call(3, "log(I)V", <<CInt(-1)>>, FALSE),
        Call(4, "log(I)V", <<CInt(-70000)>>, FALSE),
        Ret(5, 0) >> >>

\* a PhiNode nobody uses, left in the IR
hPhi ==
  << << Phi(1, <<CInt(1), CInt(2)>>),
        HCall(2, "staticfile()B", <<>>),
        Ret(3, 0) >> >>

\* a PhiNode whose value is an argument of a call
hPhiUsed ==
  << << Phi(1, <<CInt(1), CInt(2)>>),
        Call(2, "log(I)V", <<Ref(1)>>, FALSE),
        Ret(3, 0) >> >>

\* handler main { a and b; a or b; a xor b; not a; } before any folding
hBool(a, b) ==
  << << Bin(1, "BAnd", CBool(a), CBool(b)),
        Bin(2, "BOr", CBool(a), CBool(b)),
        Bin(3, "BXor", CBool(a), CBool(b)),
        Un(4, "BNot", CBool(a)),
        Ret(5, 0) >> >>

\* handler main { log "" + sum(2, 3); }  (the number cast to a string)
hCast ==
  << << Call(1, "sum(II)I", <<CInt(2), CInt(3)>>, TRUE),
        Cast(2, "String", Ref(1), "Number"),
        Call(3, "log(S)V", <<Ref(2)>>, FALSE),
        Ret(4, 0) >> >>

\* a cast to the type the source already has, and one nobody uses
hCastAlias ==
  << << Call(1, "req.path()S", <<>>, TRUE),
        Cast(2, "String", Ref(1), "String"),
        Cast(3, "Number", Ref(1), "String"),
        Ret(4, 0) >> >>

\* handler main { if req.path =~ /x/ { echo "x"; } }
hRegex ==
  << << Call(1, "req.path()S", <<>>, TRUE),
        SCmpRE(2, Ref(1), CRe(1)),
        CondBr(3, Ref(2), 2, 3) >>,
     << HCall(4, "echo(S)B", <<CStr(2)>>), Br(5, 3) >>,
     << Ret(6, 0) >> >>

Handlers ==
  { hStraight, hVar, hCond, hCondFalseNext, hCondNeither, hMatch, hDiamond, hSetup,
    hInts, hPhi, hPhiUsed, hCast, hCastAlias, hRegex }
    \cup { hBool(a, b) : a, b \in BOOLEAN }

\* IR programs: one handler, or a first handler followed by a second one.
Programs ==
  { <<h>> : h \in Handlers } \cup { <<hSetup, h>> : h \in Handlers \ {hSetup} }
    \cup { <<hCond, hMatch>>, <<hCond, hCondNeither>>, <<hCondFalseNext, hCondNeither>> }

AllInstrs(prog) ==
  UNION { UNION { { prog[h][b][i] : i \in 1..Len(prog[h][b]) }
                  : b \in 1..Len(prog[h]) } : h \in 1..Len(prog) }

\* The instructions of one handler, flattened in emission order.
RECURSIVE Flatten(_)
Flatten(blocks) ==
  IF blocks = <<>> THEN <<>> ELSE blocks[1] \o Flatten(Tail(blocks))

\* Value::uses().size(): operand occurrences of a value.  An instruction is
\* used inside its own handler; a constant is uniqued per program.
OperandCount(instrs, val) ==
  SumSeq([i \in 1..Len(instrs) |->
            Cardinality({ j \in 1..Len(instrs[i].args) : instrs[i].args[j] = val })])

RECURSIVE FlattenProgram(_)
FlattenProgram(prog) ==
  IF prog = <<>> THEN <<>> ELSE Flatten(prog[1]) \o FlattenProgram(Tail(prog))

uses(prog, h, val) ==
  IF IsConstant(val) THEN OperandCount(FlattenProgram(prog), val)
  ELSE OperandCount(Flatten(prog[h]), val)

isUsed(prog, h, val) == uses(prog, h, val) > 0

(***************************************************************************)
(* vm::Instruction: an opcode and up to three operands of OperandBits      *)
(* bits each.                                                              *)
(***************************************************************************)
OperandBits == 16
OperandMax == 2 ^ OperandBits - 1
ToOperand(n) == n % (2 ^ OperandBits)

makeInstruction(opc, a, b, c) ==
  [opc |-> opc, a |-> ToOperand(a), b |-> ToOperand(b), c |-> ToOperand(c)]

(***************************************************************************)
(* ConstantPool: deduplicated tables; make* returns the 0-based index of   *)
(* the entry, appending it when it is new.                                 *)
(***************************************************************************)
EmptyPool ==
  [numbers |-> <<>>, strings |-> <<>>, regexps |-> <<>>, matchDefs |-> <<>>,
   handlers |-> <<>>, nativeFunctions |-> <<>>, nativeHandlers |-> <<>>]

ensureValue(table, x) == IF IndexOf(table, x) >= 0 THEN table ELSE Append(table, x)

(***************************************************************************)
(* The generator's working state while it emits one handler:               *)
(*   code   code_                 cj   conditionalJumps_                   *)
(*   stack  stack_                uj   unconditionalJumps_                 *)
(*   cp     cp_                   mh   matchHints_                         *)
(*   err    the generator stopped: a failed XZERO_ASSERT, or the pop of    *)
(*          more values than the stack holds                               *)
(*   logged a message of level Fatal was logged (logFatal logs and returns)*)
(*   meta   bookkeeping for the checks only, one entry per pc: the value   *)
(*          the instruction yields, the value a LOAD/STORE operand is      *)
(*          meant to designate, the block a jump is meant to reach         *)
(***************************************************************************)
getInstructionPointer(st) == Len(st.code)

emitMeta(st, ins, val, want) ==
  [st EXCEPT !.code = Append(@, ins),
             !.meta = Append(@, [val |-> val, want |-> want, bb |-> 0])]

\* a jump, with the block it is meant to reach
emitJumpMeta(st, ins, bb) ==
  [st EXCEPT !.code = Append(@, ins),
             !.meta = Append(@, [val |-> Garbage, want |-> Garbage, bb |-> bb])]

emitInstr(st, ins) == emitMeta(st, ins, Garbage, Garbage)

getStackPointer(st, val) == IndexOf(st.stack, val)

push(st, alias) == [st EXCEPT !.stack = Append(@, alias)]

pop(st, count) ==
  IF count > Len(st.stack) THEN [st EXCEPT !.err = TRUE]
  ELSE [st EXCEPT !.stack = SubSeq(@, 1, Len(@) - count)]

\* pushValue = Garbage stands for nullptr
changeStack(st, pops, pushValue) ==
  LET s1 == IF pops > 0 THEN pop(st, pops) ELSE st
  IN  IF pushValue # Garbage THEN push(s1, pushValue) ELSE s1

emitLoad(st, val) ==
  CASE val.k = "int" ->
         IF val.v <= OperandMax
         THEN changeStack(emitMeta(st, makeInstruction("ILOAD", val.v, 0, 0), val, Garbage), 0, val)
         ELSE LET nums == ensureValue(st.cp.numbers, val.v)
                  s1 == [st EXCEPT !.cp.numbers = nums]
              IN  changeStack(emitMeta(s1, makeInstruction("NLOAD", IndexOf(nums, val.v), 0, 0),
                                       val, Garbage), 0, val)
    [] val.k = "bool" ->
         changeStack(emitMeta(st, makeInstruction("ILOAD", val.v, 0, 0), val, Garbage), 0, val)
    [] val.k = "str" ->
         LET strs == ensureValue(st.cp.strings, val.v)
             s1 == [st EXCEPT !.cp.strings = strs]
         IN  changeStack(emitMeta(s1, makeInstruction("SLOAD", IndexOf(strs, val.v), 0, 0),
                                  val, Garbage), 0, val)
    [] val.k = "re" ->
         LET res == ensureValue(st.cp.regexps, val.v)
             s1 == [st EXCEPT !.cp.regexps = res]
         IN  changeStack(emitMeta(s1, makeInstruction("ILOAD", IndexOf(res, val.v), 0, 0),
                                  val, Garbage), 0, val)
    [] OTHER ->
         \* if value is already on stack, dup to top
         LET si == getStackPointer(st, val)
         IN  IF si = -1 THEN [st EXCEPT !.err = TRUE]
             ELSE changeStack(emitMeta(st, makeInstruction("LOAD", si, 0, 0), val, val), 0, val)

RECURSIVE emitLoads(_, _)
emitLoads(st, args) ==
  IF args = <<>> \/ st.err THEN st ELSE emitLoads(emitLoad(st, args[1]), Tail(args))

emitCondJump(st, opcode, bb) ==
  LET pc == getInstructionPointer(st)
      s1 == changeStack(emitJumpMeta(st, makeInstruction(opcode, 0, 0, 0), bb), 1, Garbage)
  IN  [s1 EXCEPT !.cj = Append(@, [bb |-> bb, pc |-> pc, opcode |-> opcode])]

emitJump(st, bb) ==
  LET pc == getInstructionPointer(st)
      s1 == emitJumpMeta(st, makeInstruction("JMP", 0, 0, 0), bb)
  IN  [s1 EXCEPT !.uj = Append(@, [bb |-> bb, pc |-> pc, opcode |-> "JMP"])]

emitBinary(st, ins, opcode) ==
  LET s1 == emitLoads(st, <<ins.args[1], ins.args[2]>>)
  IN  changeStack(emitMeta(s1, makeInstruction(opcode, 0, 0, 0), Ref(ins.id), Garbage),
                  2, Ref(ins.id))

emitUnary(st, ins, opcode) ==
  LET s1 == emitLoad(st, ins.args[1])
  IN  changeStack(emitMeta(s1, makeInstruction(opcode, 0, 0, 0), Ref(ins.id), Garbage),
                  1, Ref(ins.id))

\* every instruction class lowered to the opcode of its own name
opcodeSameName(cls) ==
  CASE cls = "INeg" -> "NNEG"     [] cls = "INot" -> "NNOT"
    [] cls = "IAdd" -> "NADD"     [] cls = "ISub" -> "NSUB"
    [] cls = "ICmpEQ" -> "NCMPEQ" [] cls = "ICmpNE" -> "NCMPNE"
    [] cls = "BNot" -> "BNOT"     [] cls = "BAnd" -> "BAND"
    [] cls = "BOr" -> "BOR"       [] cls = "BXor" -> "BXOR"
    [] cls = "SLen" -> "SLEN"     [] cls = "SIsEmpty" -> "SISEMPTY"
    [] cls = "SAdd" -> "SADD"     [] cls = "SCmpEQ" -> "SCMPEQ"
    [] cls = "SCmpNE" -> "SCMPNE"

\* the opcode each visit(<class>Instr&) hands to emitUnary / emitBinary
opcodeOf(cls) ==
  CASE cls = "INeg" -> "NNEG"     [] cls = "INot" -> "NNOT"
    [] cls = "IAdd" -> "NADD"     [] cls = "ISub" -> "NSUB"
    [] cls = "ICmpEQ" -> "NCMPEQ" [] cls = "ICmpNE" -> "NCMPNE"
    [] cls = "BNot" -> "BNOT"     [] cls = "BAnd" -> "BAND"
    [] cls = "BOr" -> "BAND"      [] cls = "BXor" -> "BXOR"
    [] cls = "SLen" -> "SLEN"     [] cls = "SIsEmpty" -> "SISEMPTY"
    [] cls = "SAdd" -> "SADD"     [] cls = "SCmpEQ" -> "SCMPEQ"
    [] cls = "SCmpNE" -> "SCMPNE"

\* BasicBlock::isAfter: the other block is laid out right after this one
isAfter(bb, other) == other = bb + 1

visitNop(st, ins) == emitInstr(st, makeInstruction("NOP", 0, 0, 0))

\* logFatal("Should never reach here, ..."), and nothing else
visitPhi(st, ins) == [st EXCEPT !.logged = TRUE]

visitAlloca(st, ins) ==
  push(emitMeta(st, makeInstruction("ALLOCA", 1, 0, 0), Ref(ins.id), Garbage), Ref(ins.id))

\* variable = expression
visitStore(st, ins, sourceUses) ==
  LET variable == ins.args[1]
      source == ins.args[2]
      di == getStackPointer(st, variable)
  IN  IF di = -1 THEN [st EXCEPT !.err = TRUE]
      ELSE IF sourceUses = 1 /\ Last(st.stack) = source
      THEN changeStack(emitMeta(st, makeInstruction("STORE", di, 0, 0), Garbage, variable),
                       1, Garbage)
      ELSE LET s1 == emitLoad(st, source)
           IN  changeStack(emitMeta(s1, makeInstruction("STORE", di, 0, 0), Garbage, variable),
                           1, Garbage)

visitLoad(st, ins) ==
  LET si == getStackPointer(st, ins.args[1])
  IN  IF si = -1 THEN [st EXCEPT !.err = TRUE]
      ELSE changeStack(emitMeta(st, makeInstruction("LOAD", si, 0, 0), Ref(ins.id), ins.args[1]),
                       0, Ref(ins.id))

\* as visitCall, but a result nobody uses stays on the stack
visitCallKeep(st, ins, used) ==
  LET argc == Len(ins.args)
      s1 == emitLoads(st, ins.args)
      fns == ensureValue(s1.cp.nativeFunctions, ins.callee)
      s2 == emitMeta([s1 EXCEPT !.cp.nativeFunctions = fns],
                     makeInstruction("CALL", IndexOf(fns, ins.callee), argc,
                                     IF ins.ret THEN 1 ELSE 0),
                     Ref(ins.id), Garbage)
      s3 == IF argc > 0 THEN pop(s2, argc) ELSE s2
  IN  IF ~ins.ret THEN s3 ELSE push(s3, Ref(ins.id))

visitCall(st, ins, used) ==
  LET argc == Len(ins.args)
      s1 == emitLoads(st, ins.args)
      fns == ensureValue(s1.cp.nativeFunctions, ins.callee)
      s2 == emitMeta([s1 EXCEPT !.cp.nativeFunctions = fns],
                     makeInstruction("CALL", IndexOf(fns, ins.callee), argc,
                                     IF ins.ret THEN 1 ELSE 0),
                     Ref(ins.id), Garbage)
      s3 == IF argc > 0 THEN pop(s2, argc) ELSE s2
  IN  IF ~ins.ret THEN s3
      ELSE IF used THEN push(s3, Ref(ins.id))
      ELSE pop(emitInstr(push(s3, Ref(ins.id)), makeInstruction("DISCARD", 1, 0, 0)), 1)

visitHandlerCall(st, ins) ==
  LET argc == Len(ins.args)
      s1 == emitLoads(st, ins.args)
      hs == ensureValue(s1.cp.nativeHandlers, ins.callee)
      s2 == emitInstr([s1 EXCEPT !.cp.nativeHandlers = hs],
                      makeInstruction("HANDLER", IndexOf(hs, ins.callee), argc, 0))
  IN  IF argc > 0 THEN pop(s2, argc) ELSE s2

\* the test of the first layout case inverted
visitCondBrJN(st, ins, bb) ==
  LET trueBlock == ins.tgts[1]
      falseBlock == ins.tgts[2]
      s1 == emitLoad(st, ins.args[1])
  IN  IF isAfter(bb, trueBlock) THEN emitCondJump(s1, "JN", falseBlock)
      ELSE IF isAfter(bb, falseBlock) THEN emitCondJump(s1, "JN", trueBlock)
      ELSE emitJump(emitCondJump(s1, "JN", trueBlock), falseBlock)

visitCondBr(st, ins, bb) ==
  LET trueBlock == ins.tgts[1]
      falseBlock == ins.tgts[2]
      s1 == emitLoad(st, ins.args[1])
  IN  IF isAfter(bb, trueBlock) THEN emitCondJump(s1, "JZ", falseBlock)
      ELSE IF isAfter(bb, falseBlock) THEN emitCondJump(s1, "JN", trueBlock)
      ELSE emitJump(emitCondJump(s1, "JN", trueBlock), falseBlock)

\* as visitBr, but the JMP is emitted whatever the layout
visitBrAlways(st, ins, bb) == emitJump(st, ins.tgts[1])

visitBr(st, ins, bb) ==
  IF isAfter(bb, ins.tgts[1]) THEN st ELSE emitJump(st, ins.tgts[1])

visitRet(st, ins) == emitInstr(st, makeInstruction("EXIT", ins.args[1].v, 0, 0))

\* cp_.makeHandler: the handler's id in the pool's handler table (forward declared)
makeHandler(cp, h) ==
  IF \E i \in 1..Len(cp.handlers) : cp.handlers[i].h = h THEN cp
  ELSE [cp EXCEPT !.handlers = Append(@, [h |-> h, code |-> <<>>])]

handlerId(cp, h) == (CHOOSE i \in 1..Len(cp.handlers) : cp.handlers[i].h = h) - 1

\* the pool index of each case label, in case order
RECURSIVE makeLabels(_, _)
makeLabels(cp, labels) ==
  IF labels = <<>> THEN [cp |-> cp, idx |-> <<>>]
  ELSE LET l == labels[1]
           cp1 == IF l.k = "re"
                  THEN [cp EXCEPT !.regexps = ensureValue(@, l.v)]
                  ELSE [cp EXCEPT !.strings = ensureValue(@, l.v)]
           i == IF l.k = "re" THEN IndexOf(cp1.regexps, l.v) ELSE IndexOf(cp1.strings, l.v)
           rest == makeLabels(cp1, Tail(labels))
       IN  [cp |-> rest.cp, idx |-> <<i>> \o rest.idx]

visitMatch(st, ins, h) ==
  LET ncases == Len(ins.tgts) - 1
      cp1 == makeHandler(st.cp, h)
      matchId == Len(cp1.matchDefs)
      made == makeLabels(cp1, SubSeq(ins.args, 2, Len(ins.args)))
      def == [handlerId |-> handlerId(cp1, h), op |-> ins.opc, elsePC |-> 0,
              cases |-> [i \in 1..ncases |-> [label |-> made.idx[i], pc |-> 0]]]
      s1 == [st EXCEPT !.cp = [made.cp EXCEPT !.matchDefs = Append(@, def)],
                       !.mh = Append(@, [instr |-> ins, matchId |-> matchId])]
      s2 == emitLoad(s1, ins.args[1])
  IN  emitInstr(s2, makeInstruction(ins.opc, matchId, 0, 0))

\* instr->accept(*this)
\* TargetCodeGenerator::visit(CastInstr&): the (target, source, opcode) map
castOpcode(type, sourceType) ==
  CASE type = "String" /\ sourceType = "Number"    -> "N2S"
    [] type = "String" /\ sourceType = "IPAddress" -> "P2S"
    [] type = "String" /\ sourceType = "Cidr"      -> "C2S"
    [] type = "String" /\ sourceType = "RegExp"    -> "R2S"
    [] type = "Number" /\ sourceType = "String"    -> "S2N"
    [] OTHER -> "none"

visitCast(st, ins) ==
  LET source == ins.args[1]
      op == castOpcode(ins.opc, ins.callee)
  IN  \* just alias same-type casts
      IF ins.opc = ins.callee THEN emitLoad(st, source)
      ELSE IF op = "none" THEN [st EXCEPT !.err = TRUE]
      ELSE LET s1 == emitLoad(st, source)
           IN  IF s1.err THEN s1
               ELSE emitMeta(s1, makeInstruction(op, 0, 0, 0), Ref(ins.id), Garbage)

visitSCmpRE(st, ins) ==
  LET re == ins.args[2]
      s1 == emitLoad(st, ins.args[1])
      res == ensureValue(s1.cp.regexps, re.v)
      s2 == [s1 EXCEPT !.cp.regexps = res]
  IN  IF s1.err THEN s1
      ELSE emitMeta(s2, makeInstruction("SREGMATCH", IndexOf(res, re.v), 0, 0),
                    Ref(ins.id), Garbage)

visit(st, ins, prog, h, bb) ==
  CASE ins.op = "Nop"         -> visitNop(st, ins)
    [] ins.op = "Phi"         -> visitPhi(st, ins)
    [] ins.op = "Alloca"      -> visitAlloca(st, ins)
    [] ins.op = "Store"       -> visitStore(st, ins, uses(prog, h, ins.args[2]))
    [] ins.op = "Load"        -> visitLoad(st, ins)
    [] ins.op = "Call"        -> visitCall(st, ins, isUsed(prog, h, Ref(ins.id)))
    [] ins.op = "HandlerCall" -> visitHandlerCall(st, ins)
    [] ins.op = "Binary"      -> emitBinary(st, ins, opcodeOf(ins.opc))
    [] ins.op = "Unary"       -> emitUnary(st, ins, opcodeOf(ins.opc))
    [] ins.op = "Cast"        -> visitCast(st, ins)
    [] ins.op = "SCmpRE"      -> visitSCmpRE(st, ins)
    [] ins.op = "CondBr"      -> visitCondBr(st, ins, bb)
    [] ins.op = "Br"          -> visitBr(st, ins, bb)
    [] ins.op = "Ret"         -> visitRet(st, ins)
    [] ins.op = "Match"       -> visitMatch(st, ins, h)

(***************************************************************************)
(* State: the code generator, one run of the generated code, the native    *)
(* registry.                                                               *)
(***************************************************************************)
VARIABLES
  prog,        \* the IRProgram being compiled
  hIdx,        \* handler being generated (1-based position in prog)
  bbIdx,       \* basic block being emitted
  inIdx,       \* next instruction of that block
  gen,         \* the generator's fields (see above)
  bbEntry,     \* basicBlockEntryPoints: block -> entry pc
  entryStack,  \* stack_ as it was when each block's entry pc was recorded
  phase,       \* idle, emit, fixCond, fixUncond, fixMatch, finish, done, fatal
  out,         \* per generated handler: its code and what was recorded for it
  vh,          \* handler the VM runs (0: none)
  vpc,         \* the runner's program counter
  vstack,      \* the runner's stack: which value each slot holds
  vstate,      \* idle, running, exited, halted, crashed
  builtins_,   \* Runtime::builtins_: the registered callbacks' signatures
  lookup,      \* the last Runtime::find: [sig, result] (result 0: nullptr)
  setupApi_,   \* Daemon::setupApi_: names callable from handler setup
  mainApi_,    \* Daemon::mainApi_: names callable from handler main
  regIdx,      \* registrations the CoreModule constructor has made
  load,        \* the configuration load in progress: its locals and position
  program_,    \* Daemon::program_: the applied program (main_ points into it)
  rcode,       \* the handler code a Runner executes
  rpc,         \* Runner: program counter
  rstate,      \* Runner: inactive, running, suspended, finished, rewound, destroyed
  rresult,     \* what the last run() returned
  response,    \* what was written to the HTTP response, and whether completed
  timers,      \* executor: the scheduled resumes, each with its due time
  now,         \* host clock, in seconds
  req,         \* the request the handler serves
  trace,       \* what the runner did, in order
  regexpContext, \* the runner's regex-match context: the last match's result
  tester,      \* the test runner walking a directory of .flow files
  opt,         \* the IR of handler main between the IR generator and the code generator
  sys,         \* the process environment and one sys.env call, folded and evaluated
  conn         \* http::client::Http1Connection: completion handler, flush interest

cgVars == <<prog, hIdx, bbIdx, inIdx, gen, bbEntry, entryStack, phase, out>>
vmVars == <<vh, vpc, vstack, vstate>>
rtVars == <<builtins_, lookup>>
dVars == <<setupApi_, mainApi_, regIdx, load, program_>>
rnVars == <<rcode, rpc, rstate, rresult, response, timers, now, req, trace, regexpContext>>
tVars == <<tester>>
oVars == <<opt>>
eVars == <<sys>>
hVars == <<conn>>

\* what the actions of one component leave alone
exceptCG == <<rtVars, dVars, rnVars, tVars, oVars, eVars, hVars>>
exceptRT == <<cgVars, vmVars, dVars, rnVars, tVars, oVars, eVars, hVars>>
exceptDaemon == <<cgVars, vmVars, lookup, rnVars, tVars, oVars, eVars, hVars>>
exceptRunner == <<cgVars, vmVars, rtVars, dVars, tVars, oVars, eVars, hVars>>
exceptPasses == <<cgVars, vmVars, rtVars, dVars, rnVars, tVars, eVars, hVars>>
exceptEnv == <<cgVars, vmVars, rtVars, dVars, rnVars, tVars, oVars, hVars>>
exceptHttp == <<cgVars, vmVars, rtVars, dVars, rnVars, tVars, oVars, eVars>>
exceptTester == <<cgVars, vmVars, rtVars, dVars, rnVars, oVars, eVars, hVars>>

EmptyGen ==
  [code |-> <<>>, meta |-> <<>>, stack |-> <<>>, cj |-> <<>>, uj |-> <<>>,
   mh |-> <<>>, cp |-> EmptyPool, err |-> FALSE, logged |-> FALSE]

InitCG ==
  /\ prog = <<>>
  /\ hIdx = 0
  /\ bbIdx = 0
  /\ inIdx = 0
  /\ gen = EmptyGen
  /\ bbEntry = <<>>
  /\ entryStack = <<>>
  /\ phase = "idle"
  /\ out = <<>>

InitVM ==
  /\ vh = 0
  /\ vpc = 0
  /\ vstack = <<>>
  /\ vstate = "idle"

\* basicBlockEntryPoints[bb]: a block never recorded reads as 0
entryPoint(m, bb) == IF bb \in DOMAIN m THEN m[bb] ELSE 0

\* TargetCodeGenerator::generate(IRProgram*): start with the first handler
generateProgram ==
  /\ phase = "idle"
  /\ \E p \in Programs :
       /\ prog' = p
       /\ hIdx' = 1
       /\ gen' = [EmptyGen EXCEPT !.cp = makeHandler(EmptyPool, 1)]
  /\ bbIdx' = 1
  /\ inIdx' = 1
  /\ bbEntry' = <<>>
  /\ entryStack' = <<>>
  /\ phase' = "emit"
  /\ UNCHANGED <<out, vmVars, exceptCG>>

\* generate(IRHandler*), the emission loop: one instruction per step
emitNext ==
  /\ phase = "emit"
  /\ LET block == prog[hIdx][bbIdx]
         first == inIdx = 1
         g1 == visit(gen, block[inIdx], prog, hIdx, bbIdx)
         lastInBlock == inIdx = Len(block)
         lastBlock == bbIdx = Len(prog[hIdx])
     IN  /\ bbEntry' = IF first THEN (bbIdx :> getInstructionPointer(gen)) @@ bbEntry
                       ELSE bbEntry
         /\ entryStack' = IF first THEN (bbIdx :> gen.stack) @@ entryStack ELSE entryStack
         /\ gen' = g1
         /\ phase' = IF g1.err THEN "fatal"
                     ELSE IF lastInBlock /\ lastBlock THEN "fixCond" ELSE "emit"
         /\ bbIdx' = IF lastInBlock /\ ~lastBlock THEN bbIdx + 1 ELSE bbIdx
         /\ inIdx' = IF lastInBlock THEN 1 ELSE inIdx + 1
  /\ UNCHANGED <<prog, hIdx, out, vmVars, exceptCG>>

\* as patchJumps, but the sites keep their placeholder
patchJumpsNone(code, sites, m) == code

\* code_[source.pc] = makeInstruction(source.opcode, targetPC) for every site
RECURSIVE patchJumps(_, _, _)
patchJumps(code, sites, m) ==
  IF sites = <<>> THEN code
  ELSE patchJumps([code EXCEPT ![sites[1].pc + 1] =
                     makeInstruction(sites[1].opcode, entryPoint(m, sites[1].bb), 0, 0)],
                  Tail(sites), m)

\* the orders in which a jump work list can be walked: the targets of the
\* unordered_map in any order, the sites of one target in the order recorded
orders(sites) ==
  LET n == Len(sites)
      keepsLists(p) ==
        \A i, j \in 1..n : (i < j /\ sites[p[i]].bb = sites[p[j]].bb) => p[i] < p[j]
      grouped(p) ==
        \A i, j, k \in 1..n :
          (i < j /\ j < k /\ sites[p[i]].bb = sites[p[k]].bb) => sites[p[j]].bb = sites[p[i]].bb
  IN  { [i \in 1..n |-> sites[p[i]]] :
          p \in { q \in Permutations(1..n) : keepsLists(q) /\ grouped(q) } }

\* fixiate conditional jump instructions
fixCondJumps ==
  /\ phase = "fixCond"
  /\ \E sites \in orders(gen.cj) :
       gen' = [gen EXCEPT !.code = patchJumps(gen.code, sites, bbEntry), !.cj = <<>>]
  /\ phase' = "fixUncond"
  /\ UNCHANGED <<prog, hIdx, bbIdx, inIdx, bbEntry, entryStack, out, vmVars, exceptCG>>

\* fixiate unconditional jump instructions
fixUncondJumps ==
  /\ phase = "fixUncond"
  /\ \E sites \in orders(gen.uj) :
       gen' = [gen EXCEPT !.code = patchJumps(gen.code, sites, bbEntry), !.uj = <<>>]
  /\ phase' = "fixMatch"
  /\ UNCHANGED <<prog, hIdx, bbIdx, inIdx, bbEntry, entryStack, out, vmVars, exceptCG>>

patchMatchDef(def, ins, m) ==
  LET ncases == Len(ins.tgts) - 1
      els == ins.tgts[ncases + 1]
  IN  [def EXCEPT !.cases = [i \in 1..ncases |-> [@[i] EXCEPT !.pc = entryPoint(m, ins.tgts[i])]],
                  !.elsePC = IF els # 0 THEN entryPoint(m, els) ELSE @]

RECURSIVE patchMatchHints(_, _, _)
patchMatchHints(defs, hints, m) ==
  IF hints = <<>> THEN defs
  ELSE patchMatchHints(
         [defs EXCEPT ![hints[1].matchId + 1] = patchMatchDef(@, hints[1].instr, m)],
         Tail(hints), m)

\* fixiate match jump table
fixMatchHints ==
  /\ phase = "fixMatch"
  /\ gen' = [gen EXCEPT !.cp.matchDefs = patchMatchHints(@, gen.mh, bbEntry), !.mh = <<>>]
  /\ phase' = "finish"
  /\ UNCHANGED <<prog, hIdx, bbIdx, inIdx, bbEntry, entryStack, out, vmVars, exceptCG>>

\* as cleanup, but the symbolic stack is kept for the next handler
cleanupKeep(st) == [st EXCEPT !.code = <<>>, !.meta = <<>>]

\* code_ is moved out, stack_.clear()
cleanup(st) == [st EXCEPT !.code = <<>>, !.meta = <<>>, !.stack = <<>>]

\* the handler's code moves into the pool; handler-local work vars are dropped;
\* generate(IRProgram*) goes on with the next handler
finishHandler ==
  /\ phase = "finish"
  /\ LET id == handlerId(gen.cp, hIdx)
         cp1 == [gen.cp EXCEPT !.handlers[id + 1].code = gen.code]
         more == hIdx < Len(prog)
     IN  /\ out' = Append(out, [h |-> hIdx, code |-> gen.code, meta |-> gen.meta,
                                entry |-> bbEntry, entryStack |-> entryStack,
                                stack |-> gen.stack])
         /\ gen' = [cleanup(gen) EXCEPT
                       !.cp = IF more THEN makeHandler(cp1, hIdx + 1) ELSE cp1]
         /\ hIdx' = IF more THEN hIdx + 1 ELSE hIdx
         /\ phase' = IF more THEN "emit" ELSE "done"
  /\ bbIdx' = 1
  /\ inIdx' = 1
  /\ bbEntry' = <<>>
  /\ entryStack' = <<>>
  /\ UNCHANGED <<prog, vmVars, exceptCG>>

(***************************************************************************)
(* The runner executing the code of one generated handler.  Slots hold the *)
(* identity of the value stored in them; conditions are not evaluated, so  *)
(* a conditional jump or a match may go either way.                        *)
(***************************************************************************)
LoadOpcodes == {"ILOAD", "NLOAD", "SLOAD", "PLOAD", "CLOAD", "RLOAD"}
UnaryOpcodes ==
  {"BNOT", "NNEG", "NNOT", "SLEN", "SISEMPTY", "N2S", "P2S", "C2S", "R2S", "S2N", "SREGMATCH"}
JumpOpcodes == {"JMP", "JZ", "JN"}
MatchOpcodes == {"SMATCHEQ", "SMATCHBEG", "SMATCHEND", "SMATCHR"}
BinaryOpcodes ==
  {"SCMPEQ", "SCMPNE", "NCMPEQ", "NCMPNE", "NADD", "NSUB", "BAND", "BOR", "BXOR", "SADD"}

\* number of operands an instruction takes off the stack
Pops(ins) ==
  CASE ins.opc \in BinaryOpcodes -> 2
    [] ins.opc \in UnaryOpcodes -> 1
    [] ins.opc \in {"JZ", "JN"} -> 1
    [] ins.opc \in MatchOpcodes -> 1
    [] ins.opc \in {"CALL", "HANDLER"} -> ins.b
    [] ins.opc = "DISCARD" -> ins.a
    [] OTHER -> 0

\* the stack after the instruction at pc, whose bookkeeping entry is m
StackAfter(stk, ins, m) ==
  LET base == SubSeq(stk, 1, Len(stk) - Pops(ins))
  IN  CASE ins.opc \in LoadOpcodes \cup {"ALLOCA"} -> Append(base, m.val)
        [] ins.opc \in BinaryOpcodes \cup UnaryOpcodes -> Append(base, m.val)
        [] ins.opc = "CALL" -> IF ins.c = 1 THEN Append(base, m.val) ELSE base
        [] ins.opc = "LOAD" ->
             IF ins.a >= Len(stk) THEN Append(base, Garbage)
             ELSE IF stk[ins.a + 1] = m.want THEN Append(base, m.val)
             ELSE Append(base, Garbage)
        [] ins.opc = "STORE" ->
             \* stores top into slot a without popping
             IF ins.a >= Len(stk) THEN base
             ELSE IF stk[ins.a + 1] = m.want THEN base
             ELSE [base EXCEPT ![ins.a + 1] = Garbage]
        [] OTHER -> base

\* where control goes after the instruction at pc
NextPcs(ins, pc, defs) ==
  CASE ins.opc = "JMP" -> {ins.a}
    [] ins.opc \in {"JZ", "JN"} -> {ins.a, pc + 1}
    [] ins.opc \in MatchOpcodes ->
         { defs[ins.a + 1].cases[i].pc : i \in 1..Len(defs[ins.a + 1].cases) }
           \cup {defs[ins.a + 1].elsePC}
    [] OTHER -> {pc + 1}

vmStart ==
  /\ phase = "done"
  /\ vstate = "idle"
  /\ \E h \in 1..Len(out) : vh' = h
  /\ vpc' = 0
  /\ vstack' = <<>>
  /\ vstate' = "running"
  /\ UNCHANGED <<cgVars, exceptCG>>

vmStep ==
  /\ vstate = "running"
  /\ LET code == out[vh].code
         ins == code[vpc + 1]
         m == out[vh].meta[vpc + 1]
     IN  IF vpc >= Len(code) \/ Pops(code[vpc + 1]) > Len(vstack)
         THEN /\ vstate' = "crashed"
              /\ UNCHANGED <<vh, vpc, vstack>>
         ELSE IF ins.opc = "EXIT"
         THEN /\ vstate' = "exited"
              /\ UNCHANGED <<vh, vpc, vstack>>
         ELSE /\ vstack' = StackAfter(vstack, ins, m)
              /\ \E halt \in IF ins.opc = "HANDLER" THEN BOOLEAN ELSE {FALSE} :
                   IF halt
                   THEN vstate' = "halted" /\ vpc' = vpc
                   ELSE /\ vstate' = "running"
                        /\ \E t \in NextPcs(ins, vpc, gen.cp.matchDefs) : vpc' = t
              /\ UNCHANGED vh
  /\ UNCHANGED <<cgVars, exceptCG>>

\* the host lets go of a finished runner
vmReset ==
  /\ vstate \in {"exited", "halted", "crashed"}
  /\ vstate' = "idle"
  /\ vh' = 0
  /\ vpc' = 0
  /\ vstack' = <<>>
  /\ UNCHANGED <<cgVars, exceptCG>>


NextCG ==
  \/ generateProgram
  \/ emitNext
  \/ fixCondJumps
  \/ fixUncondJumps
  \/ fixMatchHints
  \/ finishHandler
  \/ vmStart
  \/ vmStep
  \/ vmReset




(***************************************************************************)
(* Claims about the code generator.                                        *)
(***************************************************************************)
MatchInstrs(h) == SelectSeq(Flatten(prog[h]), LAMBDA ins : ins.op = "Match")

MatchDefsOf(h) ==
  SelectSeq(gen.cp.matchDefs, LAMBDA def : def.handlerId = handlerId(gen.cp, h))

JumpsPatched(o) ==
  \A pc \in 1..Len(o.code) :
    o.code[pc].opc \in JumpOpcodes => o.code[pc].a = o.entry[o.meta[pc].bb]

MatchesPatched(o) ==
  LET instrs == MatchInstrs(o.h)
      defs == MatchDefsOf(o.h)
  IN  /\ Len(defs) = Len(instrs)
      /\ \A k \in 1..Len(instrs) :
           LET ins == instrs[k]
               n == Len(ins.tgts) - 1
           IN  /\ Len(defs[k].cases) = n
               /\ \A i \in 1..n : defs[k].cases[i].pc = o.entry[ins.tgts[i]]
               /\ ins.tgts[n + 1] # 0 => defs[k].elsePC = o.entry[ins.tgts[n + 1]]

\* C1: once generate(IRHandler) has finished a handler, every JMP, JZ and JN
\* operand of its code is the entry pc recorded for the jump's target block,
\* every case pc and the else pc of its match definitions is the entry pc of
\* the case/else block, and no jump or match hint is left pending.
C1_JumpPatch ==
  /\ \A i \in 1..Len(out) : JumpsPatched(out[i]) /\ MatchesPatched(out[i])
  /\ phase \in {"finish", "done"} => gen.cj = <<>> /\ gen.uj = <<>> /\ gen.mh = <<>>

\* a finished program with a patched JZ, a patched JMP and a patched match table
C1_Witness ==
  /\ phase = "done"
  /\ \E i \in 1..Len(out) : \E pc \in 1..Len(out[i].code) :
       out[i].code[pc].opc = "JZ" /\ out[i].code[pc].a > 0
  /\ \E i \in 1..Len(out) : \E pc \in 1..Len(out[i].code) :
       out[i].code[pc].opc = "JMP" /\ out[i].code[pc].a > 0
  /\ \E k \in 1..Len(gen.cp.matchDefs) :
       gen.cp.matchDefs[k].elsePC > 0 /\ gen.cp.matchDefs[k].cases[1].pc > 0

\* C2: whenever the runner reaches an EXIT instruction its stack is empty.
C2_StackBalance == vstate = "exited" => Len(vstack) = 0

BlocksEnteredAt(o, pc) == { bb \in DOMAIN o.entry : o.entry[bb] = pc }

\* C3: when the runner stands at the entry pc of a basic block its stack is
\* the symbolic stack the generator had when it emitted the block's first
\* instruction, and the slot of every LOAD and STORE it executes holds the
\* value the generator meant.
C3_BlockEntryStack ==
  vstate = "running" /\ vpc < Len(out[vh].code) =>
    /\ \A bb \in BlocksEnteredAt(out[vh], vpc) : vstack = out[vh].entryStack[bb]
    /\ out[vh].code[vpc + 1].opc \in {"LOAD", "STORE"} =>
         /\ out[vh].code[vpc + 1].a < Len(vstack)
         /\ vstack[out[vh].code[vpc + 1].a + 1] = out[vh].meta[vpc + 1].want

\* what the runner pushes for an integer load: the operand of ILOAD, the
\* constant-pool number an NLOAD names
pushed(ins, cp) ==
  IF ins.opc = "ILOAD" THEN ins.a ELSE cp.numbers[ins.a + 1]

\* C13: an integer constant n is loaded by ILOAD only when n fits the
\* operand, otherwise by NLOAD of a pool entry holding n, and in both cases
\* the runner pushes n.
C13_IntLoad ==
  \A pc \in 1..Len(gen.code) :
    (gen.meta[pc].val.k = "int" /\ gen.code[pc].opc \in {"ILOAD", "NLOAD"}) =>
      LET n == gen.meta[pc].val.v
      IN  /\ gen.code[pc].opc = "ILOAD" => (0 <= n /\ n <= OperandMax)
          /\ pushed(gen.code[pc], gen.cp) = n

\* the runner's stack after executing code[i..] on stk, one entry of
\* bookkeeping per instruction
RECURSIVE execute_(_, _, _)
execute_(stk, code, meta) ==
  IF code = <<>> THEN stk
  ELSE execute_(StackAfter(stk, code[1], meta[1]), Tail(code), Tail(meta))

\* the instructions the step from gen to gen' has emitted
emitted == SubSeq(gen'.code, Len(gen.code) + 1, Len(gen'.code))
emittedMeta == SubSeq(gen'.meta, Len(gen.meta) + 1, Len(gen'.meta))
lowering(op) ==
  /\ phase = "emit" /\ gen' # gen /\ ~gen'.err
  /\ prog[hIdx][bbIdx][inIdx].op = op

\* C14: STORE leaves the stored value on the stack; after a StoreInstr is
\* lowered the symbolic stack is as deep as the runner's stack after the
\* instructions emitted for it, and a single-use source already on top of the
\* symbolic stack is stored without a LOAD before the STORE.
C14_StoreDepth ==
  [][lowering("Store") =>
       LET ins == prog[hIdx][bbIdx][inIdx]
           source == ins.args[2]
       IN  /\ Len(gen'.stack) = Len(execute_(gen.stack, emitted, emittedMeta))
           /\ (uses(prog, hIdx, source) = 1 /\ gen.stack # <<>> /\ Last(gen.stack) = source)
                => [i \in 1..Len(emitted) |-> emitted[i].opc] = <<"STORE">>]_cgVars

\* the loads emitted for args, in operand order, are the first instructions emitted
loadsFirst(args) ==
  /\ Len(emitted) > Len(args)
  /\ \A i \in 1..Len(args) :
       /\ emitted[i].opc \in LoadOpcodes \cup {"LOAD"}
       /\ emittedMeta[i].val = args[i]

\* C15: a CallInstr is lowered to the loads of its arguments in operand
\* order, CALL with argc = number of arguments and the return flag set exactly
\* when the callee returns a value, and DISCARD exactly when that value has no
\* use; the symbolic stack grows by one for a used result and not otherwise.
\* A HandlerCallInstr is lowered to the loads, HANDLER with argc, and leaves
\* the depth of the symbolic stack as it was.
C15_CallLowering ==
  [][LET ins == prog[hIdx][bbIdx][inIdx]
         argc == Len(ins.args)
         used == isUsed(prog, hIdx, Ref(ins.id))
         discards == ins.ret /\ ~used
     IN  /\ lowering("Call") =>
              /\ loadsFirst(ins.args)
              /\ emitted[argc + 1].opc = "CALL"
              /\ emitted[argc + 1].b = argc
              /\ emitted[argc + 1].c = (IF ins.ret THEN 1 ELSE 0)
              /\ Len(emitted) = argc + (IF discards THEN 2 ELSE 1)
              /\ discards => emitted[argc + 2].opc = "DISCARD"
              /\ Len(gen'.stack) - Len(gen.stack) = (IF ins.ret /\ used THEN 1 ELSE 0)
         /\ lowering("HandlerCall") =>
              /\ loadsFirst(ins.args)
              /\ emitted[argc + 1].opc = "HANDLER"
              /\ emitted[argc + 1].b = argc
              /\ Len(emitted) = argc + 1
              /\ Len(gen'.stack) = Len(gen.stack)]_cgVars

\* a finished program whose code holds a call with a discarded result, a call
\* whose result stays on the stack and a handler call with an argument
C15_Witness ==
  /\ phase = "done"
  /\ \E h \in 1..Len(out) : \E pc \in 1..(Len(out[h].code) - 1) :
       /\ out[h].code[pc].opc = "CALL" /\ out[h].code[pc].c = 1
       /\ out[h].code[pc].b = 2
       /\ out[h].code[pc + 1].opc = "DISCARD"
  /\ \E h \in 1..Len(out) : \E pc \in 1..(Len(out[h].code) - 1) :
       /\ out[h].code[pc].opc = "CALL" /\ out[h].code[pc].c = 1
       /\ out[h].code[pc + 1].opc # "DISCARD"
  /\ \E h \in 1..Len(out) : \E pc \in 1..Len(out[h].code) :
       out[h].code[pc].opc = "HANDLER" /\ out[h].code[pc].b = 1

\* the pcs (0-based) of the code emitted for block b of a finished handler o
blockPcs(o, b) ==
  LET n == Len(prog[o.h])
      end == IF b < n THEN o.entry[b + 1] ELSE Len(o.code)
  IN  { pc \in 0..(Len(o.code) - 1) : o.entry[b] <= pc /\ pc < end }

\* the blocks of a finished handler that end in an unconditional Br
brBlocks(o) == { b \in 1..Len(prog[o.h]) : Last(prog[o.h][b]).op = "Br" }

\* C16: code is emitted in the IR's basic-block order (entry pcs do not
\* decrease along it); a block ending in Br holds no JMP exactly when the
\* Br's target is the next block in that order, and otherwise exactly one
\* JMP, which goes to the target's entry.
C16_BrLayout ==
  \A i \in 1..Len(out) :
    LET o == out[i]
        n == Len(prog[o.h])
    IN  /\ \A b \in 1..(n - 1) : o.entry[b] <= o.entry[b + 1]
        /\ \A b \in brBlocks(o) :
             LET target == Last(prog[o.h][b]).tgts[1]
                 jmps == { pc \in blockPcs(o, b) : o.code[pc + 1].opc = "JMP" }
             IN  /\ (jmps = {}) <=> (target = b + 1)
                 /\ Cardinality(jmps) <= 1
                 /\ \A pc \in jmps : o.code[pc + 1].a = o.entry[target]

\* a finished handler with a Br to the next block and a Br to a later one
C16_Witness ==
  \E i \in 1..Len(out) : \E b, c \in brBlocks(out[i]) :
    /\ Last(prog[out[i].h][b]).tgts[1] = b + 1
    /\ Last(prog[out[i].h][c]).tgts[1] > c + 1

\* generate(IRHandler*) as one function of the generator's state and the IR:
\* the instructions of block bb from position i on
RECURSIVE emitInstrs(_, _, _, _, _)
emitInstrs(st, p, h, bb, i) ==
  IF i > Len(p[h][bb]) THEN st
  ELSE LET s1 == visit(st, p[h][bb][i], p, h, bb)
       IN  IF s1.err THEN s1 ELSE emitInstrs(s1, p, h, bb, i + 1)

\* the blocks from bb on, with their entry points
RECURSIVE emitBlocks(_, _, _, _, _)
emitBlocks(st, entry, p, h, bb) ==
  IF bb > Len(p[h]) \/ st.err THEN [st |-> st, entry |-> entry]
  ELSE emitBlocks(emitInstrs(st, p, h, bb, 1),
                  (bb :> getInstructionPointer(st)) @@ entry, p, h, bb + 1)

\* one handler: emission, the three fix-ups in recorded order, the code's
\* move into the pool
generateHandler(st, p, h) ==
  LET r == emitBlocks(st, <<>>, p, h, 1)
      c1 == patchJumps(r.st.code, r.st.cj, r.entry)
      c2 == patchJumps(c1, r.st.uj, r.entry)
      defs == patchMatchHints(r.st.cp.matchDefs, r.st.mh, r.entry)
      id == handlerId(r.st.cp, h)
  IN  [code |-> c2,
       cp |-> [r.st.cp EXCEPT !.matchDefs = defs, !.handlers[id + 1].code = c2]]

\* generate(IRProgram*): every handler starts from empty work variables and
\* the pool its predecessors left
RECURSIVE generateAll(_, _, _, _)
generateAll(cp, codes, p, h) ==
  IF h > Len(p) THEN [cp |-> cp, codes |-> codes]
  ELSE LET r == generateHandler([EmptyGen EXCEPT !.cp = makeHandler(cp, h)], p, h)
       IN  generateAll(r.cp, Append(codes, r.code), p, h + 1)

\* C17: code generation is deterministic: whatever order the jump work lists
\* are walked in, the constant pool and every handler's code are the ones
\* the IR alone determines; and a handler starts with no jump, match hint or
\* symbolic-stack entry of the handler before it.
C17_Deterministic ==
  /\ phase = "done" =>
       LET r == generateAll(EmptyPool, <<>>, prog, 1)
       IN  /\ gen.cp = r.cp
           /\ [i \in 1..Len(out) |-> out[i].code] = r.codes
  /\ (phase = "emit" /\ bbIdx = 1 /\ inIdx = 1) =>
       /\ gen.code = <<>> /\ gen.stack = <<>>
       /\ gen.cj = <<>> /\ gen.uj = <<>> /\ gen.mh = <<>>

\* a finished program of two handlers: the first left entries on the
\* symbolic stack and had jumps patched, the second has conditional jumps to
\* two different blocks, whose work list can be walked in two orders
C17_Witness ==
  /\ phase = "done" /\ Len(out) = 2
  /\ out[1].stack # <<>>
  /\ \E pc \in 1..Len(out[1].code) : out[1].code[pc].opc \in JumpOpcodes
  /\ \E pc, qc \in 1..Len(out[2].code) :
       /\ out[2].code[pc].opc \in {"JZ", "JN"} /\ out[2].code[qc].opc \in {"JZ", "JN"}
       /\ out[2].meta[pc].bb # out[2].meta[qc].bb

\* the PhiNodes of handler h of the program
phis(p, h) == { ins \in AllInstrs(<<p[h]>>) : ins.op = "Phi" }

\* C18: no Phi survives into bytecode: no instruction is emitted for a
\* PhiNode, and a program with a PhiNode in it is never returned: code
\* generation stops at the handler that holds the PhiNode.
C18_PhiAborts ==
  \A h \in 1..Len(prog) : phis(prog, h) # {} =>
    /\ phase # "done"
    /\ \A i \in 1..Len(out) : out[i].h # h
    /\ \A ins \in phis(prog, h) : \A pc \in 1..Len(gen.meta) :
         hIdx = h => gen.meta[pc].val # Ref(ins.id)

\* the boolean opcodes as the runner evaluates them, on 0 / 1
RECURSIVE evaluate(_, _)
evaluate(stk, code) ==
  IF code = <<>> THEN stk
  ELSE LET i == code[1]
           n == Len(stk)
           top == stk[n]
           below == stk[n - 1]
       IN  evaluate(
             CASE i.opc = "ILOAD" -> Append(stk, i.a)
               [] i.opc = "BNOT"  -> Append(SubSeq(stk, 1, n - 1), 1 - top)
               [] i.opc = "BAND"  -> Append(SubSeq(stk, 1, n - 2), top * below)
               [] i.opc = "BOR"   ->
                    Append(SubSeq(stk, 1, n - 2), IF top + below > 0 THEN 1 ELSE 0)
               [] i.opc = "BXOR"  -> Append(SubSeq(stk, 1, n - 2), (top + below) % 2)
               [] OTHER -> stk,
             Tail(code))

\* what an instruction of the class computes from its constant operands
computes(ins) ==
  LET a == ins.args[1].v
      b == ins.args[Len(ins.args)].v
  IN  CASE ins.opc = "BNot" -> 1 - a
        [] ins.opc = "BAnd" -> IF a = 1 /\ b = 1 THEN 1 ELSE 0
        [] ins.opc = "BOr"  -> IF a = 1 \/ b = 1 THEN 1 ELSE 0
        [] ins.opc = "BXor" -> IF a # b THEN 1 ELSE 0

\* C23: each boolean instruction is lowered to the opcode of the same
\* operation (BNot to BNOT, BAnd to BAND, BOr to BOR, BXor to BXOR), and the
\* code emitted for it leaves NOT a, a AND b, a OR b, a XOR b on the stack.
C23_BoolLowering ==
  [][(lowering("Binary") \/ lowering("Unary")) =>
       LET ins == prog[hIdx][bbIdx][inIdx]
       IN  ins.opc \in {"BNot", "BAnd", "BOr", "BXor"} =>
             /\ Last(emitted).opc = opcodeSameName(ins.opc)
             /\ Last(evaluate(<<>>, emitted)) = computes(ins)]_cgVars

\* the runner's next pc after the jump instruction at pc, the value popped
\* for a conditional jump being cond
jump(code, pc, cond) ==
  LET i == code[pc + 1]
  IN  CASE i.opc = "JMP" -> i.a
        [] i.opc = "JZ"  -> IF cond = 0 THEN i.a ELSE pc + 1
        [] i.opc = "JN"  -> IF cond # 0 THEN i.a ELSE pc + 1
        [] OTHER -> pc + 1

condBrBlocks(o) == { b \in 1..Len(prog[o.h]) : Last(prog[o.h][b]).op = "CondBr" }

\* where control is once the code of block b's CondBr has run
transfer(o, b, pc, cond) ==
  LET next == jump(o.code, pc, cond)
  IN  IF next \in blockPcs(o, b) /\ o.code[next + 1].opc = "JMP"
      THEN jump(o.code, next, cond) ELSE next

\* C25: in each of the three layout cases of a CondBr (true block next: JZ
\* to the false block; false block next: JN to the true block; neither
\* next: JN to the true block, then JMP to the false block) the emitted code
\* goes to the true block's entry when the condition is non-zero and to the
\* false block's entry when it is zero, and the loaded condition is popped
\* exactly once.
C25_CondBrTransfer ==
  \A i \in 1..Len(out) :
    LET o == out[i]
    IN  \A b \in condBrBlocks(o) :
          LET ins == Last(prog[o.h][b])
              trueBlock == ins.tgts[1]
              falseBlock == ins.tgts[2]
              tests == { pc \in blockPcs(o, b) : o.code[pc + 1].opc \in {"JZ", "JN"} }
              after == { pc \in blockPcs(o, b) : \E t \in tests : pc > t }
          IN  /\ Cardinality(tests) = 1
              /\ \A pc \in tests :
                    /\ pc > o.entry[b]
                    /\ o.code[pc].opc \in LoadOpcodes \cup {"LOAD"}
                    /\ o.meta[pc].val = ins.args[1]
                    /\ o.code[pc + 1].opc = (IF trueBlock = b + 1 THEN "JZ" ELSE "JN")
                    /\ (after = {}) <=> (b + 1 \in {trueBlock, falseBlock})
                    /\ \A q \in after : o.code[q + 1].opc = "JMP"
                    /\ SumSeq([k \in 1..(Len(o.code) - pc) |->
                                 IF pc + k - 1 \in blockPcs(o, b)
                                 THEN Pops(o.code[pc + k]) ELSE 0]) = 1
                    /\ \A cond \in 0..1 :
                         transfer(o, b, pc, cond) =
                           o.entry[IF cond # 0 THEN trueBlock ELSE falseBlock]

\* all three layout cases have been generated
C25_Witness ==
  \E i, j, k \in 1..Len(out) :
    /\ \E b \in condBrBlocks(out[i]) : Last(prog[out[i].h][b]).tgts[1] = b + 1
    /\ \E b \in condBrBlocks(out[j]) :
         Last(prog[out[j].h][b]).tgts[1] # b + 1 /\ Last(prog[out[j].h][b]).tgts[2] = b + 1
    /\ \E b \in condBrBlocks(out[k]) : b + 1 \notin Range(Last(prog[out[k].h][b]).tgts)

\* every operand of every instruction of handler h is a constant or is
\* defined by an instruction emitted before its use
usesFollowDefinitions(p, h) ==
  LET is == Flatten(p[h])
  IN  \A i \in 1..Len(is) : \A a \in 1..Len(is[i].args) :
        is[i].args[a].k = "instr" =>
          \E j \in 1..(i - 1) : is[j].id = is[i].args[a].v /\ is[j].ret

allocas(p, h) == { ins.id : ins \in { x \in AllInstrs(<<p[h]>>) : x.op = "Alloca" } }

\* C29: in a handler where each use of a value follows its definition in
\* emission order, every operand lookup during code generation succeeds,
\* each value-producing instruction (CastInstr, SCmpREInstr, LoadInstr
\* included) being on the symbolic stack under its own identity once its
\* code is emitted; a variable has the same slot at every Load and Store.
C29_LookupsSucceed ==
  [][(/\ phase = "emit" /\ gen' # gen
      /\ usesFollowDefinitions(prog, hIdx) /\ phis(prog, hIdx) = {}) =>
       LET ins == prog[hIdx][bbIdx][inIdx]
       IN  /\ ~gen'.err
           /\ ins.op \in {"Alloca", "Load", "Unary", "Binary", "Cast", "SCmpRE"} =>
                Ref(ins.id) \in Range(gen'.stack)
           /\ \A v \in allocas(prog, hIdx) : \A p1, p2 \in 1..Len(gen'.code) :
                (/\ gen'.code[p1].opc \in {"LOAD", "STORE"} /\ gen'.meta[p1].want = Ref(v)
                 /\ gen'.code[p2].opc \in {"LOAD", "STORE"} /\ gen'.meta[p2].want = Ref(v))
                  => gen'.code[p1].a = gen'.code[p2].a]_cgVars

(***************************************************************************)
(* The native registry (vm::Runtime).                                      *)
(***************************************************************************)
MaxBuiltins == 2
MaxParams == 2

NativeNames == {"sum"}
ParamTypes == {"I", "S"}
ReturnTypes == {"I"}

\* Signature: name + return type + ordered parameter types
Sig(name, ret, args) == [name |-> name, ret |-> ret, args |-> args]

\* Signature::to_s(): name '(' parameter types ')' return type
to_s(sig) == <<sig.name, "(">> \o sig.args \o <<")", sig.ret>>

NoLookup == [sig |-> Sig("", "", <<>>), result |-> -1]

InitRT ==
  /\ builtins_ = <<>>
  /\ lookup = NoLookup

\* Runtime::registerHandler: a handler callback, its return type is Boolean
registerHandler ==
  /\ Len(builtins_) < MaxBuiltins
  /\ \E name \in NativeNames : builtins_' = Append(builtins_, Sig(name, "B", <<>>))
  /\ lookup' = NoLookup
  /\ UNCHANGED exceptRT

\* Runtime::registerFunction
registerFunction ==
  /\ Len(builtins_) < MaxBuiltins
  /\ \E name \in NativeNames, returnType \in ReturnTypes :
       builtins_' = Append(builtins_, Sig(name, returnType, <<>>))
  /\ lookup' = NoLookup
  /\ UNCHANGED exceptRT

\* NativeCallback::param<T>() on the callback the registration returned
param ==
  /\ builtins_ # <<>>
  /\ Len(Last(builtins_).args) < MaxParams
  /\ \E type \in ParamTypes :
       builtins_' = [builtins_ EXCEPT ![Len(builtins_)].args = Append(@, type)]
  /\ lookup' = NoLookup
  /\ UNCHANGED exceptRT

\* as find, but content with a callback of the requested name
findByName(bs, signature) ==
  LET hits == { i \in 1..Len(bs) : bs[i].name = signature[1] }
  IN  IF hits = {} THEN 0 ELSE CHOOSE i \in hits : \A j \in hits : i <= j

\* Runtime::find(const std::string&): the first callback whose signature
\* prints as the requested string (its 1-based position; 0 for nullptr)
find(bs, signature) ==
  LET hits == { i \in 1..Len(bs) : to_s(bs[i]) = signature }
  IN  IF hits = {} THEN 0 ELSE CHOOSE i \in hits : \A j \in hits : i <= j

Queries ==
  { Sig(n, r, a) : n \in {"sum", "frobnicate"}, r \in {"I", "B"},
                   a \in {<<>>, <<"I">>, <<"I", "S">>, <<"S", "I">>} }

\* Runtime::find(const Signature&)
findSignature ==
  /\ \E q \in Queries : lookup' = [sig |-> q, result |-> find(builtins_, to_s(q))]
  /\ UNCHANGED <<builtins_, exceptRT>>

NextRT ==
  \/ registerHandler
  \/ registerFunction
  \/ param
  \/ findSignature

\* C5: a find returns the earliest registered native whose name, return type
\* and ordered parameter types all equal the requested ones, and nullptr
\* exactly when there is none; a name never registered is never found.
C5_FindExact ==
  lookup # NoLookup =>
    LET r == lookup.result
        same == { i \in 1..Len(builtins_) : builtins_[i] = lookup.sig }
    IN  /\ r = 0 <=> same = {}
        /\ r # 0 => r \in same /\ \A j \in same : r <= j
        /\ lookup.sig.name = "frobnicate" => r = 0

\* the second of two natives of one name is found, the first differing in
\* its parameter list only
C5_Witness ==
  /\ lookup # NoLookup
  /\ lookup.result = 2
  /\ builtins_[1].name = lookup.sig.name
  /\ builtins_[1].ret = lookup.sig.ret
  /\ builtins_[1].args # lookup.sig.args

(***************************************************************************)
(* The daemon: natives of the core module and the two API lists.           *)
(***************************************************************************)
Native(kind, name, ret, args, verifier) ==
  [kind |-> kind, name |-> name, ret |-> ret, args |-> args,
   verifier |-> verifier]

\* CoreModule::CoreModule: the registrations the model follows, in code order
CoreNatives ==
  << Native("setupFunction", "listen", "V", <<"P", "I", "I", "I", "B", "B">>, FALSE),
     Native("sharedFunction", "sys.env", "S", <<"S">>, TRUE),
     Native("sharedFunction", "sleep", "V", <<"I">>, FALSE),
     Native("mainFunction", "regex.group", "S", <<"I">>, FALSE),
     Native("mainHandler", "docroot", "B", <<"S">>, TRUE),
     Native("mainHandler", "staticfile", "B", <<>>, FALSE),
     Native("mainHandler", "return", "B", <<"I", "I">>, FALSE),
     Native("mainHandler", "echo", "B", <<"S">>, FALSE) >>

\* the registration the CoreModule constructor makes next
nextNative == CoreNatives[regIdx + 1]

registering(kind) ==
  /\ regIdx < Len(CoreNatives)
  /\ nextNative.kind = kind
  /\ load.stage = "idle"

\* XzeroDaemon::setupFunction: name to setupApi_, then registerFunction
setupFunction ==
  /\ registering("setupFunction")
  /\ setupApi_' = Append(setupApi_, nextNative.name)
  /\ builtins_' = Append(builtins_, Sig(nextNative.name, nextNative.ret, nextNative.args))
  /\ regIdx' = regIdx + 1
  /\ UNCHANGED <<mainApi_, load, program_, exceptDaemon>>

\* XzeroDaemon::sharedFunction: name to both lists, then registerFunction
sharedFunction ==
  /\ registering("sharedFunction")
  /\ setupApi_' = Append(setupApi_, nextNative.name)
  /\ mainApi_' = Append(mainApi_, nextNative.name)
  /\ builtins_' = Append(builtins_, Sig(nextNative.name, nextNative.ret, nextNative.args))
  /\ regIdx' = regIdx + 1
  /\ UNCHANGED <<load, program_, exceptDaemon>>

\* XzeroDaemon::mainFunction: name to mainApi_, then registerFunction
mainFunction ==
  /\ registering("mainFunction")
  /\ mainApi_' = Append(mainApi_, nextNative.name)
  /\ builtins_' = Append(builtins_, Sig(nextNative.name, nextNative.ret, nextNative.args))
  /\ regIdx' = regIdx + 1
  /\ UNCHANGED <<setupApi_, load, program_, exceptDaemon>>

\* XzeroDaemon::mainHandler: name to mainApi_, then registerHandler
mainHandler ==
  /\ registering("mainHandler")
  /\ mainApi_' = Append(mainApi_, nextNative.name)
  /\ builtins_' = Append(builtins_, Sig(nextNative.name, "B", nextNative.args))
  /\ regIdx' = regIdx + 1
  /\ UNCHANGED <<setupApi_, load, program_, exceptDaemon>>

(***************************************************************************)
(* Configuration units: per handler the call expressions of its body.  A   *)
(* call names its callee, says whether the callee is a builtin, carries    *)
(* the callee's signature and its source location; emptyArg says that its  *)
(* first argument is the constant string "".                               *)
(***************************************************************************)
CallB(name, ret, args, loc, emptyArg) ==
  [name |-> name, builtin |-> TRUE, ret |-> ret, args |-> args, loc |-> loc,
   emptyArg |-> emptyArg, cond |-> FALSE]

CallU(name, loc) ==
  [name |-> name, builtin |-> FALSE, ret |-> "B", args |-> <<>>, loc |-> loc,
   emptyArg |-> FALSE, cond |-> FALSE]

\* the statement  if <condition> { c; }
InIf(c) == [c EXCEPT !.cond = TRUE]

cListen(loc) == CallB("listen", "V", <<"P", "I", "I", "I", "B", "B">>, loc, FALSE)
cSleep(loc) == CallB("sleep", "V", <<"I">>, loc, FALSE)
cEcho(loc) == CallB("echo", "B", <<"S">>, loc, FALSE)
cStaticfile(loc) == CallB("staticfile", "B", <<>>, loc, FALSE)
cDocroot(loc, emptyArg) == CallB("docroot", "B", <<"S">>, loc, emptyArg)
cReturn(loc) == CallB("return", "B", <<"I", "I">>, loc, FALSE)
cSysEnv(loc, emptyArg) == CallB("sys.env", "S", <<"S">>, loc, emptyArg)

\* handler setup { listen port: 8080; }  handler main { docroot '/srv'; staticfile; }
uGood ==
  [setup |-> <<cListen(1)>>, main |-> <<cDocroot(2, FALSE), cStaticfile(3)>>]

\* handler setup { listen port: 8080; }  handler main { listen port: 9090; }
uListenInMain == [setup |-> <<cListen(1)>>, main |-> <<cListen(2)>>]

\* handler setup { echo "x"; }  handler main { echo "x"; }
uEchoInSetup == [setup |-> <<cEcho(1)>>, main |-> <<cEcho(2)>>]

\* sleep and sys.env used in both handlers
uShared ==
  [setup |-> <<cSleep(1), cListen(2)>>,
   main |-> <<cSysEnv(3, FALSE), cSleep(4), cEcho(5)>>]

\* main invokes a user-defined handler that calls listen twice
uHelper ==
  [setup |-> <<cListen(1)>>,
   helper |-> <<cListen(2), cListen(3)>>,
   main |-> <<CallU("helper", 4), cEcho(5)>>]

\* no handler main
uNoMain == [setup |-> <<cListen(1)>>]

\* no handler setup
uNoSetup == [main |-> <<cEcho(1)>>]

\* handler main { docroot ''; staticfile; }
uEmptyDocroot ==
  [setup |-> <<cListen(1)>>, main |-> <<cDocroot(2, TRUE), cStaticfile(3)>>]

\* main calls echo with a signature no callback has
uBadSignature ==
  [setup |-> <<cListen(1)>>,
   main |-> <<CallB("echo", "B", <<"I">>, 2, FALSE)>>]

\* handler main { frobnicate; }
uFrobnicate ==
  [main |-> <<CallB("frobnicate", "V", <<>>, 1, FALSE)>>]

\* handler main { sum(2, 3); }
uSum == [main |-> <<CallB("sum", "I", <<"I", "I">>, 1, FALSE)>>]

\* handler main { docroot ''; echo sys.env(''); }
uTwoRejected ==
  [setup |-> <<cListen(1)>>,
   main |-> <<cDocroot(2, TRUE), cSysEnv(3, TRUE), cEcho(4)>>]

\* handler main { staticfile; return 403; }
uReturnLast ==
  [setup |-> <<cListen(1)>>, main |-> <<cStaticfile(2), cReturn(3)>>]

\* handler main { if req.path == '/x' { return 403; } staticfile; }
uReturnInIf ==
  [setup |-> <<cListen(1)>>, main |-> <<InIf(cReturn(2)), cStaticfile(3)>>]

\* handler main { if req.path == '/x' { echo 'x'; } staticfile; }
uEchoInIf ==
  [setup |-> <<cListen(1)>>, main |-> <<InIf(cEcho(2)), cStaticfile(3)>>]

\* handler setup { echo "x"; }  handler main { listen 8080; }: both illegal
uBothIllegal == [setup |-> <<cEcho(1)>>, main |-> <<cListen(2)>>]

DaemonUnits ==
  { uGood, uListenInMain, uEchoInSetup, uShared, uHelper, uNoMain, uNoSetup,
    uEmptyDocroot, uBadSignature, uTwoRejected, uReturnLast, uReturnInIf,
    uEchoInIf, uBothIllegal }

TesterUnits == { uSum, uFrobnicate }

NoUnit == [null |-> <<>>]

\* FlowCallVisitor: the call expressions met when walking a handler's body,
\* the bodies of the user-defined handlers it invokes included
RECURSIVE walk(_, _)
walk(u, body) ==
  IF body = <<>> THEN <<>>
  ELSE LET c == Head(body)
       IN  (IF c.builtin \/ c.name \notin DOMAIN u
              THEN <<c>>
              ELSE walk(u, u[c.name]) \o <<c>>) \o walk(u, Tail(body))

\* FlowCallVisitor(entrypointFn).calls()
calls(u, entry) == walk(u, u[entry])

(***************************************************************************)
(* Daemon::validateContext and the configuration pipeline.                 *)
(***************************************************************************)
\* the logError pair of one illegal call
Report(c, entrypointHandlerName) ==
  [name |-> c.name, handler |-> entrypointHandlerName, loc |-> c.loc]

\* as validateContext, but user-defined callees are checked like builtins
validateContextAll(entrypointHandlerName, api, u) ==
  IF entrypointHandlerName \notin DOMAIN u
    THEN [entry |-> entrypointHandlerName, threw |-> TRUE, reports |-> <<>>]
    ELSE LET illegal == SelectSeq(calls(u, entrypointHandlerName),
                                  LAMBDA c : c.name \notin Range(api))
         IN  [entry |-> entrypointHandlerName,
              threw |-> Len(illegal) # 0,
              reports |-> [i \in 1..Len(illegal) |->
                             Report(illegal[i], entrypointHandlerName)]]

\* Daemon::validateContext: what it logs and whether it throws
validateContext(entrypointHandlerName, api, u) ==
  IF entrypointHandlerName \notin DOMAIN u
    THEN [entry |-> entrypointHandlerName, threw |-> TRUE, reports |-> <<>>]
    ELSE LET illegal == SelectSeq(calls(u, entrypointHandlerName),
                                  LAMBDA c : c.builtin /\ c.name \notin Range(api))
             errorCount == Len(illegal)
         IN  [entry |-> entrypointHandlerName,
              threw |-> errorCount # 0,
              reports |-> [i \in 1..Len(illegal) |->
                             Report(illegal[i], entrypointHandlerName)]]

NoProgram == [null |-> TRUE, sites |-> <<>>, linked |-> FALSE]

IdleLoad ==
  [tool |-> "none", stage |-> "idle", file |-> [unit |-> NoUnit, syntaxError |-> FALSE],
   unit |-> NoUnit, parseError |-> FALSE, validation |-> <<>>, programIR |-> <<>>,
   verified |-> TRUE, verifierCalls |-> <<>>, ran |-> <<>>, program |-> NoProgram,
   optimizationLevel |-> 1]

InitDaemon ==
  /\ setupApi_ = <<>>
  /\ mainApi_ = <<>>
  /\ regIdx = 0
  /\ load = IdleLoad
  /\ program_ = NoProgram

\* Tester::Tester: the natives of the test runner's own Runtime
TesterBuiltins ==
  << Sig("handler.true", "B", <<>>), Sig("handler", "B", <<"I">>),
     Sig("sum", "I", <<"I", "I">>), Sig("assert", "I", <<"I", "S">>) >>

\* the Runtime the tool in charge links against
runtimeOf(tool) == IF tool = "x0d" THEN builtins_ ELSE TesterBuiltins

at(tool, stage) == load.tool = tool /\ load.stage = stage

\* Daemon::reloadConfiguration up to loadConfigFile(configFilePath_)
reloadConfiguration ==
  /\ regIdx = Len(CoreNatives)
  /\ load.stage = "idle"
  /\ \E u \in DaemonUnits, syntaxError \in BOOLEAN, level \in 0..2 :
       load' = [IdleLoad EXCEPT !.tool = "x0d", !.stage = "parse",
                                !.optimizationLevel = level,
                                !.file = [unit |-> u, syntaxError |-> syntaxError]]
  /\ UNCHANGED <<setupApi_, mainApi_, regIdx, program_, builtins_, exceptDaemon>>

\* Tester::compileFile up to parser.parse()
compileFile ==
  /\ load.stage = "idle"
  /\ \E u \in TesterUnits, syntaxError \in BOOLEAN :
       load' = [IdleLoad EXCEPT !.tool = "flowtest", !.stage = "parse",
                                !.file = [unit |-> u, syntaxError |-> syntaxError]]
  /\ UNCHANGED <<setupApi_, mainApi_, regIdx, program_, builtins_, exceptDaemon>>

\* FlowParser::parse: an error is reported through the callback; the unit
\* returned with it is the one parsed so far, or none
parse ==
  /\ load.stage = "parse"
  /\ \E u \in {load.file.unit} \cup (IF load.file.syntaxError THEN {NoUnit} ELSE {}) :
       load' = [load EXCEPT
                  !.unit = u,
                  !.parseError = load.file.syntaxError,
                  !.ran = Append(@, "parse"),
                  !.stage = IF load.tool = "x0d" THEN "validate" ELSE "irgen"]
  /\ UNCHANGED <<setupApi_, mainApi_, regIdx, program_, builtins_, exceptDaemon>>

\* Daemon::validateConfig: setup first, then main; the first throw ends the
\* load and reloadConfiguration catches it
validateConfig ==
  /\ at("x0d", "validate")
  /\ IF load.unit = NoUnit
       THEN load' = [load EXCEPT !.stage = "crashed"]
       ELSE LET s == validateContext("setup", setupApi_, load.unit)
                m == validateContext("main", mainApi_, load.unit)
            IN  load' = [load EXCEPT
                  !.validation = IF s.threw THEN <<s>> ELSE <<s, m>>,
                  !.ran = Append(@, "validate"),
                  !.stage = IF s.threw \/ m.threw THEN "idle" ELSE "irgen"]
  /\ UNCHANGED <<setupApi_, mainApi_, regIdx, program_, builtins_, exceptDaemon>>

\* the builtin call sites the IR of one handler contains
sitesOf(u, h) == SelectSeq(calls(u, h), LAMBDA c : c.builtin)

\* IR of a handler: basic blocks of calls, each block closed by a terminator
irCall(c) ==
  [op |-> IF c.ret = "B" THEN "HandlerCall" ELSE "Call", site |-> c, tgts |-> <<>>]
irBr(t) == [op |-> "Br", site |-> NoUnit, tgts |-> <<t>>]
irCondBr(t, f) == [op |-> "CondBr", site |-> NoUnit, tgts |-> <<t, f>>]
irRet == [op |-> "Ret", site |-> NoUnit, tgts |-> <<>>]

\* IRGenerator: a plain call joins the current block; a call under an if
\* gets a block of its own that branches on to the continuation; the last
\* block returns false
RECURSIVE lower(_, _, _)
lower(blocks, bb, cs) ==
  IF cs = <<>> THEN Append(blocks, Append(bb, irRet))
  ELSE LET c == Head(cs)
           k == Len(blocks) + 1
       IN  IF c.cond
             THEN lower(blocks \o << Append(bb, irCondBr(k + 1, k + 2)),
                                    << irCall(c), irBr(k + 2) >> >>,
                        <<>>, Tail(cs))
             ELSE lower(blocks, Append(bb, irCall(c)), Tail(cs))

\* IRGenerator::generate for the exported handlers
generate(u, exports) ==
  LET hs == SelectSeq(exports, LAMBDA h : h \in DOMAIN u)
  IN  [i \in 1..Len(hs) |->
         [name |-> hs[i], blocks |-> lower(<<>>, <<>>, sitesOf(u, hs[i]))]]

\* irgen.generate(unit.get()); Tester::compileFile passes it whatever the
\* parser returned, a null unit included
generateIR ==
  /\ load.stage = "irgen"
  /\ \/ /\ load.unit # NoUnit
        /\ load' = [load EXCEPT
             !.programIR = generate(load.unit,
                             IF load.tool = "x0d" THEN <<"setup", "main">> ELSE <<"main">>),
             !.ran = Append(@, "irgen"),
             !.stage = IF load.tool = "x0d" THEN "patch" ELSE "passes"]
     \/ /\ load.unit = NoUnit
        /\ \E next \in {"crashed", "passes"} :
             load' = [load EXCEPT !.ran = Append(@, "irgen"), !.stage = next]
  /\ UNCHANGED <<setupApi_, mainApi_, regIdx, program_, builtins_, exceptDaemon>>

returnFn == CallB("return", "B", <<"I", "I">>, 0, FALSE)

isTerminator(i) == i.op \in {"Br", "CondBr", "Ret"}

\* handler->callee() == returnFn for a HandlerCallInstr
callsReturnFn(i) ==
  /\ i.op = "HandlerCall"
  /\ i.site.name = returnFn.name
  /\ i.site.args = returnFn.args

\* Daemon::patchProgramIR, the body of its loop for one basic block: a Br
\* behind a call of return(II)B is removed; a Ret is removed and, unless
\* the block now ends in a call of return(II)B, replaced by
\* return(404, 0) and a new Ret
patchBlock(bb) ==
  LET n == Len(bb)
  IN  IF bb[n].op = "Br"
        THEN IF n >= 2 /\ callsReturnFn(bb[n - 1]) THEN SubSeq(bb, 1, n - 1) ELSE bb
      ELSE IF bb[n].op = "Ret"
        THEN LET rest == SubSeq(bb, 1, n - 1)
             IN  IF rest # <<>> /\ callsReturnFn(Last(rest))
                   THEN rest
                   ELSE rest \o << irCall(returnFn), irRet >>
      ELSE bb

\* Daemon::patchProgramIR
patchProgramIR ==
  /\ at("x0d", "patch")
  /\ load' = [load EXCEPT
       !.programIR = [i \in 1..Len(@) |->
          IF @[i].name = "main"
            THEN [@[i] EXCEPT !.blocks = [b \in 1..Len(@) |-> patchBlock(@[b])]]
            ELSE @[i]],
       !.ran = Append(@, "patch"),
       !.stage = "verify"]
  /\ UNCHANGED <<setupApi_, mainApi_, regIdx, program_, builtins_, exceptDaemon>>

\* the Call and HandlerCall instructions of a handler, in block order
sitesIn(blocks) ==
  LET instrs == Flatten(blocks)
      cs == SelectSeq(instrs, LAMBDA i : i.op \in {"Call", "HandlerCall"})
  IN  [k \in 1..Len(cs) |-> cs[k].site]

allSites(ir) == Flatten([i \in 1..Len(ir) |-> sitesIn(ir[i].blocks)])

\* preproc_sys_env, verify_docroot: false for an empty constant string
verifier(native, call) == ~(native.verifier /\ call.emptyArg)

\* Runtime::verify, first loop: the Call and HandlerCall instructions whose
\* callee signature resolves to a native
nativeCalls(bs, ir) ==
  SelectSeq(allSites(ir), LAMBDA c : find(bs, to_s(Sig(c.name, c.ret, c.args))) # 0)

\* call.second->verify(call.first, builder)
accepts(bs, c) ==
  verifier(CoreNatives[find(bs, to_s(Sig(c.name, c.ret, c.args)))], c)

\* Runtime::verify, second loop: the verifiers run in order and the first
\* rejection returns false; applied lists the calls a verifier was run on
RECURSIVE verifyLoop(_, _)
verifyLoop(bs, cs) ==
  IF cs = <<>> THEN [result |-> TRUE, applied |-> <<>>]
  ELSE IF ~accepts(bs, Head(cs))
    THEN [result |-> FALSE, applied |-> <<Head(cs).loc>>]
    ELSE LET r == verifyLoop(bs, Tail(cs))
         IN  [result |-> r.result, applied |-> <<Head(cs).loc>> \o r.applied]

\* Runtime::verify
verify(bs, ir) == verifyLoop(bs, nativeCalls(bs, ir))

\* verifyNativeCalls(programIR.get(), &irgen); the result is not looked at
verifyNativeCalls ==
  /\ at("x0d", "verify")
  /\ load' = [load EXCEPT !.verified = verify(builtins_, load.programIR).result,
                          !.verifierCalls = verify(builtins_, load.programIR).applied,
                          !.ran = Append(@, "verify"),
                          !.stage = "passes"]
  /\ UNCHANGED <<setupApi_, mainApi_, regIdx, program_, builtins_, exceptDaemon>>

(***************************************************************************)
(* The pass manager and its passes, on the blocks of one handler.  A block *)
(* keeps the identity it was generated with (id), and terminators name     *)
(* their targets by it; the entry block is the first one.                  *)
(***************************************************************************)
\* a pure instruction whose result nobody uses
irPure == [op |-> "Pure", site |-> NoUnit, tgts |-> <<>>]

named(blocks) == [i \in 1..Len(blocks) |-> [id |-> i, ins |-> blocks[i]]]

\* BasicBlock::successors / predecessors
successors(b) ==
  IF b.ins # <<>> /\ isTerminator(Last(b.ins)) THEN Range(Last(b.ins).tgts) ELSE {}
predecessors(bs, id) == { bs[i].id : i \in { j \in 1..Len(bs) : id \in successors(bs[j]) } }

without(bs, id) == SelectSeq(bs, LAMBDA b : b.id # id)

\* every terminator that names from names to instead
retarget(bs, from, to) ==
  [i \in 1..Len(bs) |->
     IF bs[i].ins # <<>> /\ isTerminator(Last(bs[i].ins))
       THEN [bs[i] EXCEPT !.ins[Len(bs[i].ins)].tgts =
               [k \in 1..Len(@) |-> IF @[k] = from THEN to ELSE @[k]]]
       ELSE bs[i]]

\* UnusedBlockPass: blocks without predecessor other than the entry block go
RECURSIVE UnusedBlockPass(_)
UnusedBlockPass(bs) ==
  LET unused == { i \in 2..Len(bs) : predecessors(bs, bs[i].id) = {} }
  IN  IF unused = {} THEN bs
      ELSE UnusedBlockPass(without(bs, bs[CHOOSE i \in unused : \A j \in unused : i <= j].id))

\* as MergeBlockPass, but no block is merged
MergeBlockPassNone(bs) == bs

\* MergeBlockPass: A ends in Br to B and B has no other predecessor: B's
\* instructions replace A's terminator and B goes
RECURSIVE MergeBlockPass(_)
MergeBlockPass(bs) ==
  LET mergeable == { i \in 1..Len(bs) :
                       /\ bs[i].ins # <<>> /\ Last(bs[i].ins).op = "Br"
                       /\ Last(bs[i].ins).tgts[1] # bs[i].id
                       /\ Last(bs[i].ins).tgts[1] # bs[1].id
                       /\ predecessors(bs, Last(bs[i].ins).tgts[1]) = {bs[i].id} }
  IN  IF mergeable = {} THEN bs
      ELSE LET a == CHOOSE i \in mergeable : \A j \in mergeable : i <= j
               bId == Last(bs[a].ins).tgts[1]
               b == CHOOSE j \in 1..Len(bs) : bs[j].id = bId
               merged == [bs EXCEPT ![a].ins = SubSeq(@, 1, Len(@) - 1) \o bs[b].ins]
           IN  MergeBlockPass(without(merged, bId))

\* EmptyBlockElimination: a block holding only Br(C) is replaced by C in the
\* terminators of its predecessors and goes
RECURSIVE EmptyBlockElimination(_)
EmptyBlockElimination(bs) ==
  LET empty == { i \in 2..Len(bs) :
                   /\ Len(bs[i].ins) = 1 /\ bs[i].ins[1].op = "Br"
                   /\ bs[i].ins[1].tgts[1] # bs[i].id }
  IN  IF empty = {} THEN bs
      ELSE LET e == CHOOSE i \in empty : \A j \in empty : i <= j
           IN  EmptyBlockElimination(
                 without(retarget(bs, bs[e].id, bs[e].ins[1].tgts[1]), bs[e].id))

\* InstructionElimination: pure instructions without a use go
InstructionElimination(bs) ==
  [i \in 1..Len(bs) |-> [bs[i] EXCEPT !.ins = SelectSeq(@, LAMBDA x : x.op # "Pure")]]

runPass(pass, bs) ==
  CASE pass = "UnusedBlockPass" -> UnusedBlockPass(bs)
    [] pass = "MergeBlockPass" -> MergeBlockPass(bs)
    [] pass = "EmptyBlockElimination" -> EmptyBlockElimination(bs)
    [] pass = "InstructionElimination" -> InstructionElimination(bs)

\* one round of the pipeline, in registration order
RECURSIVE runPipeline(_, _)
runPipeline(passes, bs) ==
  IF passes = <<>> THEN bs ELSE runPipeline(Tail(passes), runPass(Head(passes), bs))

\* PassManager::run on one handler: rounds until no pass changes anything
RECURSIVE logicalRun(_, _)
logicalRun(passes, bs) ==
  LET r == runPipeline(passes, bs)
  IN  IF r = bs THEN bs ELSE logicalRun(passes, r)

\* as registerPasses, but the mandatory pass is registered with the optional ones
registerPassesOptional(optimizationLevel) ==
  IF optimizationLevel >= 1
    THEN <<"UnusedBlockPass", "MergeBlockPass", "EmptyBlockElimination",
           "InstructionElimination">>
    ELSE <<>>

\* Daemon::loadConfigStream: the mandatory pass, then the optional ones
registerPasses(optimizationLevel) ==
  <<"UnusedBlockPass">> \o
    (IF optimizationLevel >= 1
       THEN <<"MergeBlockPass", "EmptyBlockElimination", "InstructionElimination">>
       ELSE <<>>)

\* Tester::compileFile: optimize is true and all four passes are registered
testerPasses ==
  <<"UnusedBlockPass", "MergeBlockPass", "EmptyBlockElimination", "InstructionElimination">>

\* the blocks with their terminators naming targets by position again
positional(bs) ==
  [i \in 1..Len(bs) |->
     [k \in 1..Len(bs[i].ins) |->
        [bs[i].ins[k] EXCEPT !.tgts =
           [t \in 1..Len(@) |-> CHOOSE j \in 1..Len(bs) : bs[j].id = @[t]]]]]

\* PassManager::run over every handler of the program
runPasses ==
  /\ load.stage = "passes"
  /\ LET passes == IF load.tool = "x0d" THEN registerPasses(load.optimizationLevel)
                   ELSE testerPasses
     IN  load' = [load EXCEPT
           !.programIR = [i \in 1..Len(@) |->
              [@[i] EXCEPT !.blocks = positional(logicalRun(passes, named(@)))]],
           !.ran = Append(@, "passes"),
           !.stage = "codegen"]
  /\ UNCHANGED <<setupApi_, mainApi_, regIdx, program_, builtins_, exceptDaemon>>

\* TargetCodeGenerator().generate(programIR.get())
generateCode ==
  /\ load.stage = "codegen"
  /\ load' = [load EXCEPT
       !.program = [null |-> FALSE, sites |-> allSites(load.programIR), linked |-> FALSE],
       !.ran = Append(@, "codegen"),
       !.stage = "link"]
  /\ UNCHANGED <<setupApi_, mainApi_, regIdx, program_, builtins_, exceptDaemon>>

\* Program::link: every call site resolves to a native of the Runtime
linkProgram(p, bs) ==
  [p EXCEPT !.linked =
     \A i \in 1..Len(p.sites) :
       find(bs, to_s(Sig(p.sites[i].name, p.sites[i].ret, p.sites[i].args))) # 0]

\* program->link(this): neither caller looks at the result
link ==
  /\ load.stage = "link"
  /\ load' = [load EXCEPT
       !.program = linkProgram(@, runtimeOf(load.tool)),
       !.ran = Append(@, "link"),
       !.stage = IF load.tool = "x0d" THEN "apply" ELSE "idle"]
  /\ UNCHANGED <<setupApi_, mainApi_, regIdx, program_, builtins_, exceptDaemon>>

\* Daemon::applyConfiguration: runs setup, installs main and the program
applyConfiguration ==
  /\ at("x0d", "apply")
  /\ program_' = load.program
  /\ load' = [load EXCEPT !.ran = Append(@, "apply"), !.stage = "idle"]
  /\ UNCHANGED <<setupApi_, mainApi_, regIdx, builtins_, exceptDaemon>>

NextDaemon ==
  \/ setupFunction
  \/ sharedFunction
  \/ mainFunction
  \/ mainHandler
  \/ reloadConfiguration
  \/ compileFile
  \/ parse
  \/ validateConfig
  \/ generateIR
  \/ patchProgramIR
  \/ verifyNativeCalls
  \/ runPasses
  \/ generateCode
  \/ link
  \/ applyConfiguration

(***************************************************************************)
(* Claims about the daemon.                                                *)
(***************************************************************************)
apiOf(entry) == IF entry = "setup" THEN setupApi_ ELSE mainApi_

\* the calls collected for an entry handler of the unit under validation
collected(entry) ==
  IF entry \in DOMAIN load.unit THEN Range(calls(load.unit, entry)) ELSE {}

illegalCalls(entry) ==
  { c \in collected(entry) : c.builtin /\ c.name \notin Range(apiOf(entry)) }

\* how the core module registered a name
registeredVia(name) ==
  { CoreNatives[i].kind : i \in { j \in 1..Len(CoreNatives) : CoreNatives[j].name = name } }

reportsOf(r, c) == { k \in 1..Len(r.reports) : r.reports[k].loc = c.loc }

ReportsExact(r) ==
  /\ \A c \in collected(r.entry) : ~c.builtin => reportsOf(r, c) = {}
  /\ \A c \in illegalCalls(r.entry) : Cardinality(reportsOf(r, c)) = 1
  /\ \A k \in 1..Len(r.reports) :
       \E c \in illegalCalls(r.entry) : r.reports[k] = Report(c, r.entry)

PhaseRules(r) ==
  \A c \in { d \in collected(r.entry) : d.builtin } :
    LET via == registeredVia(c.name)
    IN  /\ via = {"setupFunction"} /\ r.entry = "main" => c \in illegalCalls(r.entry)
        /\ via # {} /\ via \subseteq {"mainFunction", "mainHandler"} /\ r.entry = "setup"
             => c \in illegalCalls(r.entry)
        /\ via = {"sharedFunction"} => reportsOf(r, c) = {}

C6_AppliedLinked == ~program_.null => program_.linked

\* C12: once patchProgramIR has rewritten main, every basic block of main
\* ends in exactly one terminator and nothing follows it.
C12_Terminators ==
  "patch" \in Range(load.ran) =>
    \A i \in 1..Len(load.programIR) :
      load.programIR[i].name = "main" =>
        \A b \in 1..Len(load.programIR[i].blocks) :
          LET bb == load.programIR[i].blocks[b]
          IN  /\ bb # <<>>
              /\ isTerminator(Last(bb))
              /\ \A k \in 1..(Len(bb) - 1) : ~isTerminator(bb[k])

\* C11: Runtime::verify runs the verifier of every call whose callee is
\* registered, each exactly once, and returns true if and only if all of
\* them accept.
C11_VerifyAll ==
  "verify" \in Range(load.ran) =>
    LET cs == nativeCalls(builtins_, load.programIR)
    IN  /\ load.verifierCalls = [i \in 1..Len(cs) |-> cs[i].loc]
        /\ load.verified <=> \A i \in 1..Len(cs) : accepts(builtins_, cs[i])

\* C10: after a parse error neither IR generation nor passes, code
\* generation or link run; after a rejected native-call verification neither
\* passes, code generation nor link run and no program is produced.
C10_ShortCircuit ==
  /\ load.parseError =>
       Range(load.ran) \cap {"irgen", "passes", "codegen", "link"} = {}
  /\ ~load.verified =>
       /\ Range(load.ran) \cap {"passes", "codegen", "link"} = {}
       /\ load.program.null

\* main as IRGenerator::generate left it, before patchProgramIR
mainBefore == generate(load.unit, <<"main">>)[1].blocks

\* the block whose code runs next when instruction k of block b is a handler
\* call that returned false (0: the handler exits): blocks are emitted one
\* after the other, so the end of a block without terminator is the entry of
\* the block emitted after it
continuesInto(blocks, b, k) ==
  LET bb == blocks[b]
  IN  IF k < Len(bb)
        THEN IF bb[k + 1].op = "Ret" THEN 0
             ELSE IF bb[k + 1].op = "Br" THEN bb[k + 1].tgts[1]
             ELSE b
        ELSE IF b < Len(blocks) THEN b + 1 ELSE 0

returnCalls(bb) == Len(SelectSeq(bb, callsReturnFn))

C24_BothReported ==
  (/\ load.validation # <<>>
   /\ {"setup", "main"} \subseteq DOMAIN load.unit
   /\ illegalCalls("setup") # {} /\ illegalCalls("main") # {})
    => \A entry \in {"setup", "main"} :
         \E i \in 1..Len(load.validation) :
           /\ load.validation[i].entry = entry
           /\ \A c \in illegalCalls(entry) : reportsOf(load.validation[i], c) # {}

(***************************************************************************)
(* Running a handler: the natives of the core module as the Runner calls   *)
(* them.  A context cx holds the request, the response written so far, the *)
(* executor's timers, the clock and the runner's suspend flag.             *)
(***************************************************************************)
MaxTime == 3

NotFound == 404
BadRequest == 400

\* isError(HttpStatus): client and server errors
isError(status) == status >= 400

EmptyResponse == [status |-> 0, body |-> <<>>, completed |-> FALSE, encoding |-> ""]

\* what a native leaves behind: its result, the response, the suspend flag
\* and the timers
done(cx, result, resp) ==
  [result |-> result, response |-> resp, suspended |-> FALSE, timers |-> cx.timers]

\* Context::sendErrorPage: false when an internal redirect starts over
sendErrorPage(cx, status) ==
  done(cx, cx.req.errorPage, [cx.response EXCEPT !.status = status])

\* as sleep, but the runner is not suspended
sleepNoSuspend(cx, n) ==
  [result |-> "void", response |-> cx.response, suspended |-> FALSE,
   timers |-> Append(cx.timers, [due |-> cx.now + n])]

\* CoreModule::sleep: suspend(), then executeAfter(n seconds, Runner::resume)
sleep(cx, n) ==
  [result |-> "void", response |-> cx.response, suspended |-> TRUE,
   timers |-> Append(cx.timers, [due |-> cx.now + n])]

\* as echo, but without the line feed
echoNoNewline(cx, content) ==
  IF cx.req.traceOrigin THEN done(cx, TRUE, cx.response)
  ELSE done(cx, TRUE,
            [cx.response EXCEPT !.status = IF @ = 0 THEN 200 ELSE @,
                                !.body = Append(@, content),
                                !.completed = TRUE])

\* CoreModule::echo
echo(cx, content) ==
  IF cx.req.traceOrigin THEN done(cx, TRUE, cx.response)
  ELSE done(cx, TRUE,
            [cx.response EXCEPT !.status = IF @ = 0 THEN 200 ELSE @,
                                !.body = Append(Append(@, content), "\n"),
                                !.completed = TRUE])

\* the three-way end of staticfile and precompressed on the file handler's
\* status
served(cx, status, resp) ==
  IF status = NotFound THEN done(cx, FALSE, resp)
  ELSE IF ~isError(status) THEN done(cx, TRUE, [resp EXCEPT !.status = status])
  ELSE sendErrorPage([cx EXCEPT !.response = resp], status)

\* as staticfile, but a file that is not found counts as served
staticfileAlways(cx) ==
  IF cx.req.traceOrigin THEN done(cx, TRUE, cx.response)
  ELSE IF cx.req.directoryDepth < 0 THEN sendErrorPage(cx, BadRequest)
  ELSE done(cx, TRUE, cx.response)

\* CoreModule::staticfile
staticfile(cx) ==
  IF cx.req.traceOrigin THEN done(cx, TRUE, cx.response)
  ELSE IF cx.req.directoryDepth < 0 THEN sendErrorPage(cx, BadRequest)
  ELSE served(cx, cx.req.status, cx.response)

encodings == << [id |-> "gzip", fileExtension |-> ".gz"],
                [id |-> "bzip2", fileExtension |-> ".bz2"] >>

\* CoreModule::precompressed
precompressed(cx) ==
  IF cx.req.traceOrigin THEN done(cx, TRUE, cx.response)
  ELSE IF cx.req.directoryDepth < 0 THEN sendErrorPage(cx, BadRequest)
  ELSE IF cx.req.file = "none" THEN done(cx, FALSE, cx.response)
  ELSE IF cx.req.file = "missing" THEN done(cx, FALSE, cx.response)
  ELSE IF cx.req.file # "regular" THEN done(cx, FALSE, cx.response)
  ELSE LET usable == SelectSeq(encodings,
                       LAMBDA e : /\ e.id \in Range(cx.req.acceptEncoding)
                                  /\ e.fileExtension \in cx.req.precompressedFiles)
       IN  IF usable = <<>> THEN done(cx, FALSE, cx.response)
           ELSE served(cx, cx.req.status,
                       [cx.response EXCEPT !.encoding = usable[1].id])

\* Runtime::invoke: the callback bound to the native
\* RegExp::match of /^\/user\/(\d+)$/ on the subject, a sequence of
\* characters: the whole match and the digits, or no groups at all
Digits == {"0", "1", "2", "3", "4", "5", "6", "7", "8", "9"}
match(subject) ==
  LET prefix == <<"/", "u", "s", "e", "r", "/">>
      n == Len(subject)
  IN  IF /\ n > Len(prefix)
         /\ SubSeq(subject, 1, Len(prefix)) = prefix
         /\ \A i \in (Len(prefix) + 1)..n : subject[i] \in Digits
      THEN <<subject, SubSeq(subject, Len(prefix) + 1, n)>>
      ELSE <<>>

\* no regex match executed by this runner yet
NoRegexMatch == [null |-> TRUE, groups |-> <<>>]

\* the runner's =~ : the context takes the result, matched or not
regexMatch(subject) == [null |-> FALSE, groups |-> match(subject)]

\* as regex_group, but the groups are counted from 1
regex_groupFromOne(cx, position) ==
  LET rr == cx.regexMatch
  IN  IF ~rr.null
      THEN IF position >= 1 /\ position <= Len(rr.groups)
           THEN done(cx, rr.groups[position], cx.response)
           ELSE done(cx, <<>>, cx.response)
      ELSE done(cx, <<>>, cx.response)

\* CoreModule::regex_group; the empty string is the empty sequence
regex_group(cx, position) ==
  LET rr == cx.regexMatch
  IN  IF ~rr.null
      THEN IF position >= 0 /\ position < Len(rr.groups)
           THEN done(cx, rr.groups[position + 1], cx.response)
           ELSE done(cx, <<>>, cx.response)
      ELSE done(cx, <<>>, cx.response)

invoke(native, cx, arg) ==
  CASE native = "sleep" -> sleep(cx, arg)
    [] native = "regex.group" -> regex_group(cx, arg)
    [] native = "echo" -> echo(cx, arg)
    [] native = "staticfile" -> staticfile(cx)
    [] native = "precompressed" -> precompressed(cx)

(***************************************************************************)
(* Handler code, reduced to its native calls and its EXIT.                 *)
(***************************************************************************)
ICall(native, arg) == [op |-> "CALL", native |-> native, arg |-> arg]
IHandler(native, arg) == [op |-> "HANDLER", native |-> native, arg |-> arg]
IExit(b) == [op |-> "EXIT", native |-> "", arg |-> b]
IRegMatch(subject) == [op |-> "SREGMATCH", native |-> "", arg |-> subject]

\* handler main { sleep 1; echo "done"; }
pSleepEcho == << ICall("sleep", 1), IHandler("echo", "done"), IExit(FALSE) >>

\* handler main { staticfile; echo "fallback"; }
pStaticfile == << IHandler("staticfile", 0), IHandler("echo", "fallback"), IExit(FALSE) >>

\* handler main { precompressed; staticfile; }
pPrecompressed == << IHandler("precompressed", 0), IHandler("staticfile", 0), IExit(FALSE) >>

\* handler main { sleep 2; sleep 1; }
pSleepTwice == << ICall("sleep", 2), ICall("sleep", 1), IExit(FALSE) >>

\* the request paths /user/42 and /x
User42 == <<"/", "u", "s", "e", "r", "/", "4", "2">>
SlashX == <<"/", "x">>

\* handler main { if req.path =~ /^\/user\/(\d+)$/ {} regex.group(i); }
pMatchGroup(path, i) == << IRegMatch(path), ICall("regex.group", i), IExit(FALSE) >>

\* handler main { regex.group(1); }
pGroupOnly == << ICall("regex.group", 1), IExit(FALSE) >>

\* a match that succeeds, one that fails, then regex.group(1)
pHitThenMiss ==
  << IRegMatch(User42), IRegMatch(SlashX), ICall("regex.group", 1), IExit(FALSE) >>

RegexPrograms ==
  { pMatchGroup(User42, i) : i \in -1..2 } \cup { pMatchGroup(SlashX, i) : i \in 0..1 }
    \cup { pGroupOnly, pHitThenMiss }

RunnerPrograms == { pSleepEcho, pStaticfile, pPrecompressed, pSleepTwice } \cup RegexPrograms

Requests ==
  [ traceOrigin : BOOLEAN,
    directoryDepth : {-1, 1},
    file : {"none", "missing", "directory", "regular"},
    status : {200, 403, NotFound},
    errorPage : BOOLEAN,
    acceptEncoding : {<<>>, <<"gzip">>, <<"bzip2", "gzip">>},
    precompressedFiles : {{}, {".gz"}, {".bz2"}} ]

NoRequest ==
  [traceOrigin |-> FALSE, directoryDepth |-> 1, file |-> "none", status |-> 200,
   errorPage |-> TRUE, acceptEncoding |-> <<>>, precompressedFiles |-> {}]

(***************************************************************************)
(* The Runner: one handler invocation, its suspension and its resumption.  *)
(***************************************************************************)
InitRunner ==
  /\ rcode = <<>>
  /\ rpc = 0
  /\ rstate = "inactive"
  /\ rresult = "none"
  /\ response = EmptyResponse
  /\ timers = <<>>
  /\ now = 0
  /\ req = NoRequest
  /\ trace = <<>>
  /\ regexpContext = NoRegexMatch

Event(ev, pc, result) == [ev |-> ev, pc |-> pc, at |-> now, result |-> result]

Success(b) == IF b THEN "Success(true)" ELSE "Success(false)"

\* Handler::run: a fresh Runner at the handler's first instruction; the
\* clock counts the seconds since then
run ==
  /\ rstate = "inactive"
  /\ \E code \in RunnerPrograms, r \in Requests :
       /\ rcode' = code
       /\ req' = r
  /\ rpc' = 1
  /\ rstate' = "running"
  /\ rresult' = "none"
  /\ response' = EmptyResponse
  /\ timers' = <<>>
  /\ now' = 0
  /\ trace' = <<>>
  /\ regexpContext' = NoRegexMatch
  /\ UNCHANGED exceptRunner

\* Runner::loop, one instruction: CALL and HANDLER invoke the native and
\* return Suspended if it suspended the runner; a handler's true result
\* ends the run; EXIT ends it with its operand
execute ==
  /\ rstate = "running"
  /\ LET ins == rcode[rpc]
         cx == [req |-> req, response |-> response, timers |-> timers, now |-> now,
                regexMatch |-> regexpContext]
     IN  IF ins.op = "EXIT"
           THEN /\ rstate' = "finished"
                /\ rresult' = Success(ins.arg)
                /\ trace' = trace \o << Event("exec", rpc, ins.arg),
                                        Event("return", rpc, Success(ins.arg)) >>
                /\ UNCHANGED <<rpc, response, timers, regexpContext>>
           ELSE IF ins.op = "SREGMATCH"
           THEN /\ regexpContext' = regexMatch(ins.arg)
                /\ rpc' = rpc + 1
                /\ trace' = Append(trace, Event("exec", rpc, match(ins.arg) # <<>>))
                /\ UNCHANGED <<rstate, rresult, response, timers>>
           ELSE LET r == invoke(ins.native, cx, ins.arg)
                IN  /\ response' = r.response
                    /\ UNCHANGED regexpContext
                    /\ timers' = r.timers
                    /\ rpc' = rpc + 1
                    /\ IF r.suspended
                         THEN /\ rstate' = "suspended"
                              /\ rresult' = "Suspended"
                              /\ trace' = trace \o << Event("exec", rpc, r.result),
                                                      Event("return", rpc, "Suspended") >>
                         ELSE IF ins.op = "HANDLER" /\ r.result = TRUE
                           THEN /\ rstate' = "finished"
                                /\ rresult' = Success(TRUE)
                                /\ trace' = trace \o << Event("exec", rpc, r.result),
                                                        Event("return", rpc, Success(TRUE)) >>
                           ELSE /\ trace' = Append(trace, Event("exec", rpc, r.result))
                                /\ UNCHANGED <<rstate, rresult>>
  /\ UNCHANGED <<rcode, now, req, exceptRunner>>

\* a second passes while the runner is suspended
tick ==
  /\ rstate = "suspended"
  /\ now < MaxTime
  /\ now' = now + 1
  /\ UNCHANGED <<rcode, rpc, rstate, rresult, response, timers, req, trace, regexpContext,
                 exceptRunner>>

\* the executor runs a due timer: Runner::resume re-enters the loop at the
\* saved program counter
resume ==
  /\ \E i \in 1..Len(timers) :
       /\ now >= timers[i].due
       /\ timers' = SubSeq(timers, 1, i - 1) \o SubSeq(timers, i + 1, Len(timers))
  /\ IF rstate = "destroyed"
       THEN \* Runner::resume bound to a pointer to a runner that is gone
            \E outcome \in {"running", "destroyed"} : rstate' = outcome
       ELSE rstate' = IF rstate = "suspended" THEN "running" ELSE rstate
  /\ trace' = Append(trace, Event("resume", rpc, ""))
  /\ UNCHANGED <<rcode, rpc, rresult, response, now, req, regexpContext, exceptRunner>>

\* the run has returned its result and the Runner is gone
release ==
  /\ rstate = "finished"
  /\ timers = <<>>
  /\ rcode' = <<>>
  /\ rpc' = 0
  /\ rstate' = "inactive"
  /\ rresult' = "none"
  /\ response' = EmptyResponse
  /\ now' = 0
  /\ req' = NoRequest
  /\ trace' = <<>>
  /\ regexpContext' = NoRegexMatch
  /\ UNCHANGED <<timers, exceptRunner>>

\* the host cancels the suspended runner: Runner::rewind, or the runner is
\* destroyed with its request.  sleep kept no handle of the scheduled
\* resume, so the timer stays as it is.
cancel ==
  /\ rstate = "suspended"
  /\ \E how \in {"rewound", "destroyed"} :
       /\ rstate' = how
       /\ rpc' = IF how = "rewound" THEN 1 ELSE rpc
  /\ rresult' = "Error"
  /\ trace' = Append(trace, Event("cancel", rpc, ""))
  /\ UNCHANGED <<rcode, response, timers, now, req, regexpContext, exceptRunner>>

NextRunner ==
  \/ run
  \/ execute
  \/ tick
  \/ resume
  \/ release

(***************************************************************************)
(* Claims about suspension and native handlers.                            *)
(***************************************************************************)
isExec(e, op, native) ==
  /\ e.ev = "exec"
  /\ rcode[e.pc].op = op
  /\ rcode[e.pc].native = native

\* C7: sleep(n) leaves the runner suspended with exactly one resume
\* scheduled n seconds later; the run returns Suspended at once, the next
\* thing the runner does is that resume, not before n seconds have passed,
\* and the instruction executed after it is the one following the sleep.
C7_SleepSuspends ==
  /\ rstate = "suspended" => Len(timers) = 1
  /\ rstate # "suspended" => timers = <<>>
  /\ \A i \in 1..Len(trace) :
       isExec(trace[i], "CALL", "sleep") =>
         LET n == rcode[trace[i].pc].arg
         IN  /\ i + 1 <= Len(trace)
             /\ trace[i + 1].ev = "return" /\ trace[i + 1].result = "Suspended"
             /\ i + 1 = Len(trace) =>
                  /\ rstate = "suspended"
                  /\ timers[1].due = trace[i].at + n
                  /\ rpc = trace[i].pc + 1
             /\ i + 2 <= Len(trace) =>
                  /\ trace[i + 2].ev = "resume"
                  /\ trace[i + 2].at >= trace[i].at + n
             /\ i + 3 <= Len(trace) =>
                  /\ trace[i + 3].ev = "exec"
                  /\ trace[i + 3].pc = trace[i].pc + 1

\* a sleep of two seconds was resumed and the instruction after it executed
C7_Witness ==
  \E i \in 1..Len(trace) :
    /\ isExec(trace[i], "CALL", "sleep")
    /\ rcode[trace[i].pc].arg = 2
    /\ i + 3 <= Len(trace)
    /\ trace[i + 2].ev = "resume"
    /\ trace[i + 3].ev = "exec"

returns == SelectSeq(trace, LAMBDA e : e.ev = "return")

SleepThenEcho(last) ==
  rcode = pSleepEcho /\ ~req.traceOrigin =>
    /\ Len(returns) <= 2
    /\ Len(returns) >= 1 => returns[1].result = "Suspended"
    /\ rresult = "Suspended" =>
         /\ \A i \in 1..Len(trace) : ~isExec(trace[i], "HANDLER", "echo")
         /\ response.body = <<>>
    /\ Len(returns) = 2 =>
         /\ returns[2].result = last
         /\ response.body = <<"done", "\n">>
         /\ \E i, j \in 1..Len(trace) :
              i < j /\ trace[i].ev = "resume" /\ isExec(trace[j], "HANDLER", "echo")

noPrecompressedFile(r) ==
  \/ r.file # "regular"
  \/ \A k \in 1..Len(encodings) :
       \/ encodings[k].id \notin Range(r.acceptEncoding)
       \/ encodings[k].fileExtension \notin r.precompressedFiles

matchesBefore(pc) == { j \in 1..(pc - 1) : rcode[j].op = "SREGMATCH" }

Max(S) == CHOOSE x \in S : \A y \in S : y <= x

\* C19: regex.group(i) returns capture group i of the runner's most recent
\* regex match when 0 <= i < the number of its groups, and the empty string
\* when i is negative or out of range, when this runner has executed no regex
\* match, or when the most recent one did not match.
C19_RegexGroup ==
  \A k \in 1..Len(trace) :
    isExec(trace[k], "CALL", "regex.group") =>
      LET pc == trace[k].pc
          i == rcode[pc].arg
          groups == IF matchesBefore(pc) = {} THEN <<>>
                    ELSE match(rcode[Max(matchesBefore(pc))].arg)
      IN  trace[k].result = IF 0 <= i /\ i < Len(groups) THEN groups[i + 1] ELSE <<>>

\* regex.group(1) has returned 42 after /user/42 matched
C19_Witness ==
  \E k \in 1..Len(trace) :
    /\ isExec(trace[k], "CALL", "regex.group")
    /\ rcode[trace[k].pc].arg = 1
    /\ trace[k].result = <<"4", "2">>

(***************************************************************************)
(* The test runner (flowtest): Tester::testFile and Tester::testDirectory. *)
(* A test file is what compiling it reports and what its expectation       *)
(* section parses to.                                                      *)
(***************************************************************************)
MaxFiles == 2

M1 == [kind |-> "TypeError", line |-> 1, text |-> "a"]
M2 == [kind |-> "LinkError", line |-> 2, text |-> "b"]

\* diagnostics::Report: messages in the order they were appended
Reports == { <<>>, <<M1>>, <<M2>>, <<M1, M2>>, <<M2, M1>>, <<M1, M1>> }

\* Parser::parse of the expectation section: a Report, or a failure
ParseFailure == [ok |-> FALSE, report |-> <<>>]
Expectations == { [ok |-> TRUE, report |-> r] : r \in Reports } \cup {ParseFailure}

FlowFiles == [extension : {".flow"}, actual : Reports, expected : Expectations]
OtherFile == [extension |-> ".txt", actual |-> <<>>, expected |-> ParseFailure]
Directories == UNION { [1..n -> FlowFiles \cup {OtherFile}] : n \in 0..MaxFiles }

\* Report equality: set-based by (kind, location, text)
equal(a, b) == Range(a) = Range(b)

\* diagnostics::difference: (missing, superfluous)
difference(actual, expected) ==
  [first |-> SelectSeq(expected, LAMBDA m : m \notin Range(actual)),
   second |-> SelectSeq(actual, LAMBDA m : m \notin Range(expected))]

\* Tester::testFile: its result and the number of reportError calls
testFile(file) ==
  IF ~file.expected.ok THEN [result |-> FALSE, errors |-> 0]
  ELSE LET diff == difference(file.actual, file.expected.report)
       IN  [result |-> equal(file.actual, file.expected.report),
            errors |-> Len(diff.first) + Len(diff.second)]

IdleTester ==
  [stage |-> "idle", dir |-> <<>>, idx |-> 0, errorCount |-> 0, errorCount_ |-> 0,
   tested |-> <<>>, result |-> FALSE]

InitTester == tester = IdleTester

\* as testEntry, but the first failing file ends the iteration
testEntryStop(t, file) ==
  LET r == testFile(file)
  IN  [t EXCEPT !.idx = IF r.result THEN @ + 1 ELSE Len(t.dir) + 1,
                !.errorCount = IF r.result THEN @ ELSE @ + 1,
                !.errorCount_ = @ + r.errors,
                !.tested = Append(@, [idx |-> t.idx, result |-> r.result,
                                      errors |-> r.errors])]

\* the body of testDirectory's loop for a .flow file
testEntry(t, file) ==
  LET r == testFile(file)
  IN  [t EXCEPT !.idx = @ + 1,
                !.errorCount = IF r.result THEN @ ELSE @ + 1,
                !.errorCount_ = @ + r.errors,
                !.tested = Append(@, [idx |-> t.idx, result |-> r.result,
                                      errors |-> r.errors])]

\* Tester::testDirectory is called on a directory
testDirectory ==
  /\ tester.stage = "idle"
  /\ \E d \in Directories :
       tester' = [IdleTester EXCEPT !.stage = "iterate", !.dir = d, !.idx = 1]
  /\ UNCHANGED exceptTester

\* the next directory entry: tested if it is a .flow file
nextEntry ==
  /\ tester.stage = "iterate"
  /\ tester.idx <= Len(tester.dir)
  /\ LET file == tester.dir[tester.idx]
     IN  tester' = IF file.extension = ".flow" THEN testEntry(tester, file)
                   ELSE [tester EXCEPT !.idx = @ + 1]
  /\ UNCHANGED exceptTester

\* return errorCount == 0
returnResult ==
  /\ tester.stage = "iterate"
  /\ tester.idx > Len(tester.dir)
  /\ tester' = [tester EXCEPT !.stage = "done", !.result = (tester.errorCount = 0)]
  /\ UNCHANGED exceptTester

NextTester ==
  \/ testDirectory
  \/ nextEntry
  \/ returnResult

\* the .flow files of the directory, by position
flowFiles == { i \in 1..Len(tester.dir) : tester.dir[i].extension = ".flow" }

\* C20: testFile returns true exactly when the diagnostics of the compile and
\* the expected ones are the same set, that is when difference(actual,
\* expected) has no missing and no superfluous message; it reports one error
\* per such message, and returns false when the expectations do not parse.
\* testDirectory tests every .flow file, whatever the files before it did,
\* and returns true exactly when testFile did for each of them.
C20_TesterVerdict ==
  /\ \A k \in 1..Len(tester.tested) :
       LET t == tester.tested[k]
           f == tester.dir[t.idx]
           missing == Range(f.expected.report) \ Range(f.actual)
           superfluous == Range(f.actual) \ Range(f.expected.report)
           diff == difference(f.actual, f.expected.report)
       IN  /\ f.extension = ".flow"
           /\ ~f.expected.ok => ~t.result
           /\ f.expected.ok =>
                /\ t.result <=> (Range(f.actual) = Range(f.expected.report))
                /\ t.result <=> (missing = {} /\ superfluous = {})
                /\ t.errors = Len(diff.first) + Len(diff.second)
                /\ Range(diff.first) = missing /\ Range(diff.second) = superfluous
  /\ tester.errorCount_ = SumSeq([k \in 1..Len(tester.tested) |-> tester.tested[k].errors])
  /\ tester.stage = "done" =>
       /\ { tester.tested[k].idx : k \in 1..Len(tester.tested) } = flowFiles
       /\ Len(tester.tested) = Cardinality(flowFiles)
       /\ tester.result <=> \A k \in 1..Len(tester.tested) : tester.tested[k].result

\* a directory whose first .flow file failed with a missing and a superfluous
\* message, and whose second one was tested all the same and passed
C20_Witness ==
  /\ tester.stage = "done" /\ ~tester.result
  /\ Len(tester.tested) = 2
  /\ ~tester.tested[1].result /\ tester.tested[1].errors = 2
  /\ tester.tested[2].result

(***************************************************************************)
(* The IR of one handler main on its way through patchProgramIR and the    *)
(* pass manager (x0d), or through the pass manager alone (flowtest).       *)
(***************************************************************************)
MaxBlocks == 4

\* the shapes of a block at position b of n: its branches go forward
blockShapes(b, n) ==
  IF b = n
    THEN { << irCall(cEcho(b)), irRet >>, << irPure, irRet >> }
    ELSE { << irBr(t) >> : t \in (b + 1)..n }
           \cup { << irCall(cReturn(b)), irBr(t) >> : t \in (b + 1)..n }
           \cup { << irCondBr(t, f) >> : t, f \in (b + 1)..n }

\* the handlers of n blocks, from block b on
RECURSIVE blocksFrom(_, _)
blocksFrom(b, n) ==
  IF b > n THEN { <<>> }
  ELSE { <<s>> \o rest : s \in blockShapes(b, n), rest \in blocksFrom(b + 1, n) }

IRHandlers == UNION { blocksFrom(1, n) : n \in 1..MaxBlocks }

\* B0 -> B1 -> B2 -> B3, B1 and B2 holding only their branch
irChain ==
  << << irCall(cEcho(1)), irBr(2) >>, << irBr(3) >>, << irBr(4) >>,
     << irCall(cEcho(4)), irRet >> >>

isChain(bs) ==
  /\ Len(bs) = 4
  /\ \A b \in 1..3 : Last(bs[b].ins).op = "Br" /\ Last(bs[b].ins).tgts = <<b + 1>>
  /\ Len(bs[2].ins) = 1 /\ Len(bs[3].ins) = 1
  /\ Last(bs[4].ins).op = "Ret"

IdleOpt ==
  [stage |-> "idle", tool |-> "none", optimizationLevel |-> 1, source |-> <<>>,
   given |-> <<>>, ir |-> <<>>, once |-> <<>>]

InitPasses == opt = IdleOpt

passesOf(o) ==
  IF o.tool = "x0d" THEN registerPasses(o.optimizationLevel) ELSE testerPasses

\* irgen.generate has produced handler main
generated ==
  /\ opt.stage = "idle"
  /\ \E tool \in {"x0d", "flowtest"}, level \in 0..2,
        blocks \in IRHandlers \cup {irChain} :
       /\ tool = "flowtest" => level = 1
       /\ opt' = [IdleOpt EXCEPT !.stage = IF tool = "x0d" THEN "patch" ELSE "passes",
                                 !.tool = tool, !.optimizationLevel = level,
                                 !.source = named(blocks), !.ir = named(blocks)]
  /\ UNCHANGED exceptPasses

\* Daemon::patchProgramIR on main
patchMain ==
  /\ opt.stage = "patch"
  /\ opt' = [opt EXCEPT !.ir = [i \in 1..Len(@) |-> [@[i] EXCEPT !.ins = patchBlock(@)]],
                        !.stage = "passes"]
  /\ UNCHANGED exceptPasses

\* pm.run(programIR.get())
optimize ==
  /\ opt.stage = "passes"
  /\ LET r == logicalRun(passesOf(opt), opt.ir)
     IN  opt' = [opt EXCEPT !.given = opt.ir, !.ir = r, !.once = r, !.stage = "ran"]
  /\ UNCHANGED exceptPasses

\* the same pipeline run on its own result
optimizeAgain ==
  /\ opt.stage = "ran"
  /\ opt' = [opt EXCEPT !.ir = logicalRun(passesOf(opt), opt.ir), !.stage = "again"]
  /\ UNCHANGED exceptPasses

NextPasses ==
  \/ generated
  \/ patchMain
  \/ optimize
  \/ optimizeAgain

optional(o) == o.tool = "flowtest" \/ o.optimizationLevel >= 1

\* the chain went into the pipeline with all four passes registered
chainOptimized ==
  /\ opt.stage \in {"ran", "again"}
  /\ optional(opt)
  /\ isChain(opt.given)

\* C21 as stated: of the chain B0 -> B1 -> B2 -> B3 the optimizer leaves
\* B0 -> B3, and a second run leaves the IR identical.
C21_Original ==
  /\ chainOptimized =>
       /\ [i \in 1..Len(opt.once) |-> opt.once[i].id] = <<1, 4>>
       /\ Last(opt.once[1].ins).op = "Br" /\ Last(opt.once[1].ins).tgts = <<4>>
  /\ (opt.stage = "again" /\ optional(opt)) => opt.ir = opt.once

\* C21, amended: B1 and B2 are gone and B3, then B0's only successor, is
\* merged into B0: one block is left, holding B0's instructions without its
\* branch and then B3's; a second run leaves the IR identical.
C21_ChainMerged ==
  /\ chainOptimized =>
       /\ Len(opt.once) = 1 /\ opt.once[1].id = 1
       /\ opt.once[1].ins =
            SelectSeq(SubSeq(opt.given[1].ins, 1, Len(opt.given[1].ins) - 1) \o opt.given[4].ins,
                      LAMBDA x : x.op # "Pure")
  /\ (opt.stage = "again" /\ optional(opt)) => opt.ir = opt.once

\* the chain has been optimized twice
C21_Witness ==
  /\ opt.stage = "again" /\ optional(opt)
  /\ isChain(opt.given)
  /\ opt.given[1].ins # <<irBr(2)>>

\* C22: UnusedBlockPass is registered at every optimization level, the
\* optional passes at level 1 and above only; once the pass manager has run
\* every block but the entry block has a predecessor, the blocks included
\* that lost theirs when patchProgramIR removed a branch.
C22_NoUnusedBlock ==
  /\ \A l \in 0..2 :
       /\ "UnusedBlockPass" \in Range(registerPasses(l))
       /\ \A p \in {"MergeBlockPass", "EmptyBlockElimination", "InstructionElimination"} :
            p \in Range(registerPasses(l)) <=> l >= 1
  /\ opt.stage \in {"ran", "again"} =>
       \A i \in 2..Len(opt.ir) : predecessors(opt.ir, opt.ir[i].id) # {}

\* at level 0 a block whose only predecessor lost its branch in
\* patchProgramIR is gone after the pass manager has run
C22_Witness ==
  /\ opt.stage = "ran" /\ opt.tool = "x0d" /\ opt.optimizationLevel = 0
  /\ \E i \in 2..Len(opt.given) :
       /\ predecessors(opt.source, opt.given[i].id) # {}
       /\ predecessors(opt.given, opt.given[i].id) = {}
       /\ \A j \in 1..Len(opt.ir) : opt.ir[j].id # opt.given[i].id

(***************************************************************************)
(* sys.env: the verifiers that fold a call at IR time, and the natives     *)
(* that evaluate it at run time, in one process environment.               *)
(***************************************************************************)
EnvNames == {"HOME", "PORT"}
EnvValues == {"", "x"}
ArgStrings == {"", "HOME", "PORT", "d"}
Null == [null |-> TRUE, s |-> ""]
Unfolded == [op |-> "Call"]

\* an operand: a ConstantString, or a value known at run time only
Operands == [const : BOOLEAN, s : ArgStrings]
NoOperand == [const |-> TRUE, s |-> "none"]

\* getenv(3)
getenv(environ, name) ==
  IF name \in DOMAIN environ /\ ~environ[name].null THEN environ[name] ELSE Null

\* CoreModule::preproc_sys_env
preproc_sys_env(environ, arg) ==
  IF arg.const
    THEN IF arg.s = "" THEN [ok |-> FALSE, ir |-> Unfolded]
         ELSE LET cval == getenv(environ, arg.s)
              IN  [ok |-> TRUE,
                   ir |-> [op |-> "Load", str |-> IF ~cval.null THEN cval.s ELSE ""]]
    ELSE [ok |-> TRUE, ir |-> Unfolded]

\* CoreModule::sys_env
sys_env(environ, name) ==
  LET value == getenv(environ, name)
  IN  IF ~value.null THEN value.s ELSE ""

\* CoreModule::preproc_sys_env2
preproc_sys_env2(environ, arg, val) ==
  IF arg.const /\ val.const
    THEN IF arg.s = "" THEN [ok |-> FALSE, ir |-> Unfolded]
         ELSE LET cval == getenv(environ, arg.s)
              IN  [ok |-> TRUE,
                   ir |-> [op |-> "Load",
                           str |-> IF ~cval.null /\ cval.s # "" THEN cval.s ELSE val.s]]
    ELSE [ok |-> TRUE, ir |-> Unfolded]

\* CoreModule::sys_env2
sys_env2(environ, name, default) ==
  LET value == getenv(environ, name)
  IN  IF ~value.null THEN value.s ELSE default

IdleEnv(environ) ==
  [environ |-> environ, stage |-> "idle", args |-> <<>>,
   verified |-> [ok |-> TRUE, ir |-> Unfolded], result |-> ""]

InitEnv == sys = IdleEnv([n \in EnvNames |-> Null])

\* the host sets or unsets a variable before the configuration is loaded
setenv ==
  /\ sys.stage = "idle"
  /\ \E n \in EnvNames, v \in {Null} \cup { [null |-> FALSE, s |-> x] : x \in EnvValues } :
       sys' = [sys EXCEPT !.environ[n] = v]
  /\ UNCHANGED exceptEnv

\* the IR-time verifier of the call's signature runs on the call
verifyCall ==
  /\ sys.stage = "idle"
  /\ \E arg \in Operands, val \in Operands \cup {NoOperand} :
       sys' = [sys EXCEPT
         !.stage = "verified",
         !.args = IF val = NoOperand THEN <<arg>> ELSE <<arg, val>>,
         !.verified = IF val = NoOperand THEN preproc_sys_env(sys.environ, arg)
                      ELSE preproc_sys_env2(sys.environ, arg, val)]
  /\ UNCHANGED exceptEnv

\* the native evaluates the call as written, at run time
callNative ==
  /\ sys.stage = "verified"
  /\ sys' = [sys EXCEPT
       !.stage = "called",
       !.result = IF Len(sys.args) = 1 THEN sys_env(sys.environ, sys.args[1].s)
                  ELSE sys_env2(sys.environ, sys.args[1].s, sys.args[2].s)]
  /\ UNCHANGED exceptEnv

nextCall ==
  /\ sys.stage = "called"
  /\ sys' = IdleEnv(sys.environ)
  /\ UNCHANGED exceptEnv

NextEnv == setenv \/ verifyCall \/ callNative \/ nextCall

constantArgs == \A i \in 1..Len(sys.args) : sys.args[i].const

\* C27: the constant the IR-time verifier substitutes for sys.env(name) or
\* sys.env(name, default) with constant arguments and a non-empty name
\* equals what the native returns at run time in the same environment, also
\* when the variable is set to the empty string; a constant empty name is
\* rejected; a call with a non-constant argument is left unchanged.
C27_FoldAgrees ==
  sys.stage = "called" =>
    /\ (constantArgs /\ sys.args[1].s # "") =>
          /\ sys.verified.ok
          /\ sys.verified.ir.op = "Load"
          /\ sys.verified.ir.str = sys.result
    /\ (constantArgs /\ sys.args[1].s = "") => ~sys.verified.ok
    /\ ~constantArgs => sys.verified = [ok |-> TRUE, ir |-> Unfolded]

\* a handler run that the host may cancel
NextCancel == NextRunner \/ cancel

\* C28: when the host cancels a runner that sleep has suspended, the resume
\* that sleep scheduled does not resume it: no instruction of the runner
\* executes after the cancel, whenever the timer fires.
C28_NoExecAfterCancel ==
  \A i, j \in 1..Len(trace) :
    (i < j /\ trace[i].ev = "cancel") => trace[j].ev # "exec"

(***************************************************************************)
(* http::client::Http1Connection: the completion handler of a send.        *)
(* Handlers are numbered; 0 is the empty std::function.                    *)
(***************************************************************************)
MaxHandlers == 3
MaxRequests == 2
NoHandler == 0
\* std::bind(&Http1Connection::onRequestComplete, this, _1)
OnRequestComplete == -1
\* the chunk types of send(chunk, onComplete); a HugeBuffer is buffered or a file
Chunks == {"BufferRef", "Buffer", "FileView", "HugeBuffer(Buffer)", "HugeBuffer(FileView)"}
RequestChunks == {"none", "BufferRef", "Buffer", "FileView", "HugeBuffer"}

\* Http1Connection::setCompleter
setCompleter(c, onComplete) ==
  IF onComplete # NoHandler /\ c.onComplete_ # NoHandler
    THEN [c EXCEPT !.raised = TRUE]
    ELSE [c EXCEPT !.onComplete_ = onComplete, !.raised = FALSE]

\* Http1Connection::invokeCompleter
invokeCompleter(c, success) ==
  IF c.onComplete_ # NoHandler
    THEN [c EXCEPT !.onComplete_ = NoHandler,
                   !.invoked = Append(@, [cb |-> c.onComplete_, success |-> success,
                                          pending |-> NoHandler])]
    ELSE c

\* Connection::wantFlush at the end of a send, unless setCompleter raised
wantFlush(c) == IF c.raised THEN c ELSE [c EXCEPT !.flush = TRUE]

InitHttp ==
  conn = [onComplete_ |-> NoHandler, flush |-> FALSE, invoked |-> <<>>, raised |-> FALSE,
          closed |-> FALSE, handlers |-> 0, requests |-> 0,
          last |-> [op |-> "none", onComplete |-> NoHandler, before |-> NoHandler]]

\* the caller's next completion handler, or none
passes(onComplete) ==
  /\ onComplete \in {NoHandler, conn.handlers + 1}
  /\ onComplete <= MaxHandlers

called(c, op, onComplete) ==
  [c EXCEPT !.last = [op |-> op, onComplete |-> onComplete, before |-> conn.onComplete_],
            !.handlers = IF onComplete > @ THEN onComplete ELSE @]

\* send(requestInfo, [chunk,] onComplete)
sendRequest ==
  /\ ~conn.closed
  /\ \E chunk \in RequestChunks, onComplete \in 0..MaxHandlers :
       /\ passes(onComplete)
       /\ conn' = called(wantFlush(setCompleter(conn, onComplete)), "send", onComplete)
  /\ UNCHANGED exceptHttp

\* send(chunk, onComplete)
send ==
  /\ ~conn.closed
  /\ \E chunk \in Chunks, onComplete \in 0..MaxHandlers :
       /\ passes(onComplete)
       /\ conn' = called(wantFlush(setCompleter(conn,
                      IF chunk \in {"FileView", "HugeBuffer(FileView)"}
                        THEN conn.onComplete_ ELSE onComplete)),
                    "send", onComplete)
  /\ UNCHANGED exceptHttp

\* Http1Connection::completed
completed ==
  /\ ~conn.closed
  /\ conn.requests < MaxRequests
  /\ conn' = [called(wantFlush(setCompleter(conn, OnRequestComplete)), "completed", NoHandler)
               EXCEPT !.requests = @ + 1]
  /\ UNCHANGED exceptHttp

\* Http1Connection::onFlushable
onFlushable ==
  /\ ~conn.closed /\ conn.flush
  /\ \E complete \in BOOLEAN :
       conn' = called(IF ~complete THEN [conn EXCEPT !.raised = FALSE]
                      ELSE [invokeCompleter(conn, TRUE) EXCEPT !.flush = FALSE,
                                                              !.raised = FALSE],
                      "onFlushable", NoHandler)
  /\ UNCHANGED exceptHttp

\* Http1Connection::onInterestFailure
onInterestFailure ==
  /\ ~conn.closed /\ conn.flush
  /\ conn' = called([invokeCompleter(conn, FALSE) EXCEPT !.flush = FALSE, !.closed = TRUE,
                                                         !.raised = FALSE],
                    "onInterestFailure", NoHandler)
  /\ UNCHANGED exceptHttp

NextHttp == sendRequest \/ send \/ completed \/ onFlushable \/ onInterestFailure

invocations(cb) == Len(SelectSeq(conn.invoked, LAMBDA i : i.cb = cb))

\* C30: at most one completion handler is pending; installing a second
\* non-empty one while one is pending raises IllegalStateError and leaves the
\* pending one in place; every non-empty handler passed to a send() becomes
\* the pending handler and is invoked exactly once, with the flush outcome,
\* after it was cleared from the connection.
C30_CompletionHandler ==
  /\ (conn.last.op = "send" /\ conn.last.onComplete # NoHandler) =>
        IF conn.last.before # NoHandler
          THEN conn.raised /\ conn.onComplete_ = conn.last.before
          ELSE ~conn.raised /\ conn.onComplete_ = conn.last.onComplete
  /\ \A cb \in 1..conn.handlers :
        /\ invocations(cb) <= 1
        /\ (conn.last.op = "send" /\ conn.last.onComplete = cb /\ conn.raised)
             \/ conn.onComplete_ = cb
             \/ invocations(cb) = 1
  /\ \A i \in 1..Len(conn.invoked) : conn.invoked[i].pending = NoHandler

(***************************************************************************)
(* Specifications: one per component, over the same variables.             *)
(***************************************************************************)
vars == <<cgVars, vmVars, rtVars, dVars, rnVars, tVars, oVars, eVars, hVars>>

Init == InitCG /\ InitVM /\ InitRT /\ InitDaemon /\ InitRunner /\ InitTester /\ InitPasses /\ InitEnv /\ InitHttp

\* the code generator and the runner of its code
Next == NextCG

Spec == Init /\ [][Next]_vars

\* the native registry
SpecRuntime == Init /\ [][NextRT]_vars

\* the daemon's registrations and its configuration pipeline
SpecDaemon == Init /\ [][NextDaemon]_vars

\* a handler run with the core natives
SpecRunner == Init /\ [][NextRunner]_vars

\* the test runner
SpecTester == Init /\ [][NextTester]_vars

\* patchProgramIR and the pass manager
SpecPasses == Init /\ [][NextPasses]_vars

\* a handler run cancelled by the host while it sleeps
SpecCancel == Init /\ [][NextCancel]_vars

\* sys.env at IR time and at run time
SpecEnv == Init /\ [][NextEnv]_vars

\* the HTTP/1 client connection's completion handler
SpecHttp == Init /\ [][NextHttp]_vars
=============================================================================
